---- MODULE Spec2Model ----
(***************************************************************************)
(* A model of the S3/SQS log forwarder: the SQS-triggered handler          *)
(* (handlers/aws/sqs_trigger.py), the S3 storage reader (storage/s3.py),   *)
(* the Elasticsearch shipper (shippers/es.py), the include/exclude filter  *)
(* (share/include_exlude.py) and the configuration (share/config.py).      *)
(* The line segmenter, the multiline aggregator, the event list expander   *)
(* and the JSON classifier follow the design description of the forwarder. *)
(*                                                                         *)
(* Strings and byte strings are sequences of one-character tokens; the     *)
(* newline byte is the token "LF".  Python's None is the record None.      *)
(***************************************************************************)
EXTENDS Integers, Sequences, FiniteSets, TLC

\* ------------------------------------------------------------------ bounds
\* Longest object body, in bytes.
MaxLen == 3
\* Most SQS records in one lambda event, most S3 records in all of them.
MaxSqsRecords == 1
MaxS3Records == 1
\* Most invocations (the first one and its continuations) in one behaviour.
MaxInvocations == 2
\* S3Storage._chunk_size (1024 * 1024 in src/storage/s3.py:15), scaled down.
ChunkSize == 2
\* ElasticsearchShipper._bulk_batch_size (10000 in src/shippers/es.py:17),
\* scaled down.
BulkBatchSize == 2
\* Most patterns in one pattern list, longest message, in characters.
MaxPatterns == 2
MaxMessageLen == 2

\* ------------------------------------------------------------------ values
None == [type |-> "None"]
LF == "LF"
CR == "CR"
Bytes == {"a", LF}

RECURSIVE SeqsUpTo(_, _)
SeqsUpTo(S, n) ==
  IF n = 0 THEN {<<>>}
  ELSE LET prev == SeqsUpTo(S, n - 1)
       IN prev \cup {Append(s, x) : s \in {p \in prev : Len(p) = n - 1}, x \in S}

Contents == SeqsUpTo(Bytes, MaxLen)

\* The one bucket and the one object key of the object store, and the empty
\* strings a malformed notification carries.
BucketArn == <<"arn:", "b">>
ObjectKey == <<"k">>
Empty == <<>>
Region == "eu"
\* eventSourceARN of the queue that has an input configured, and of one that
\* has not.
ConfiguredArn == "arn1"
UnconfiguredArn == "arn2"

VARIABLES
  inputs,            \* Config._inputs: type -> (id -> Input)
  objects,           \* the object store: <<bucket_name, object_key>> -> body
  trigger,           \* the lambda event of the first invocation (history)
  event,             \* the lambda event of the current invocation
  invocation,        \* number of the current invocation, from 1
  pc,                \* where _handle_sqs_event and its caller stand
  sqs_record_n,      \* enumerate index of the SQS record loop
  s3_record_n,       \* enumerate index of the S3 record loop
  lines,             \* what storage.get_by_lines yields for the current object
  idx,               \* number of storage events already consumed
  readBytes,         \* the bytes the chunk reader delivered for the object
  fields,            \* _default_event["fields"], shared by every shallow copy
  yielded,           \* the tuple the generator is suspended on
  emitted,           \* history: tuples yielded in this invocation
  skipped,           \* history: storage events skipped in this invocation
  cls_bulk_actions,  \* ElasticsearchShipper._bulk_actions, the class attribute
  shipper,           \* the shipper instance: has it an own _bulk_actions, and it
  sent,              \* history: ids passed to send() on this shipper
  handed,            \* history: ids handed to the bulk writer by this shipper
  backend,           \* the documents the backend holds
  conflicts,         \* history: ids the backend refused to create a second time
  fargs,             \* the pattern lists the filter was constructed from
  filter_,           \* the IncludeExcludeFilter instance
  fpc,               \* per caller: where its filter() call stands
  fmessage,          \* per caller: the message it filters
  fmode,             \* per caller: the branch of filter() it took
  fraised,           \* per caller: did the matcher raise during this call
  fresult,           \* per caller: what filter() returned
  gargs,             \* the pattern lists a second filter was constructed from
  other,             \* the second IncludeExcludeFilter instance
  eq,                \* what `filter_ == other` gave: a value or an exception
  payload,           \* two event payloads handed to _s3_object_id
  ident,             \* the identifiers _s3_object_id returned for them
  content,           \* the bytes of a stream given to the storage's generator
  chunking,          \* the number of bytes one read of that stream asks for
  segmented,         \* has the stream been read to its end
  segments,          \* the storage events the stream gave
  multiline,         \* the multiline configuration of the aggregator
  aggregated,        \* has the aggregator consumed the lines and been finalized
  collected,         \* the events the aggregator emitted
  document,          \* the parsed JSON document given to the expander
  resume,            \* the element index the expander resumes from
  expanded,          \* what the expander gave: events, or not applicable
  sample,            \* the content of the object given to the classifier
  json_content_type, \* the configured JSON content type, or None
  threshold,         \* the configured size threshold of the circuit breaker
  classified,        \* what the classifier decided, None before it ran
  write_raised,      \* did the last send() or flush() end with es_bulk raising
  unwritten,         \* history: ids sent since the last write that succeeded
  output,            \* the ElasticSearchOutput, None before it is constructed
  kwargs_raised,     \* has an assignment of kwargs to the output raised
  add_input_raised,  \* did the last add_input raise
  added              \* history: the inputs given to add_input, in order

pvars == <<inputs, objects, trigger, event, invocation, pc, sqs_record_n,
           s3_record_n, lines, idx, readBytes, fields, yielded, emitted,
           skipped, cls_bulk_actions, shipper, sent, handed, backend,
           conflicts>>

fvars == <<fargs, filter_, fpc, fmessage, fmode, fraised, fresult>>

evars == <<gargs, other, eq>>

ivars == <<payload, ident>>

lvars == <<content, chunking, segmented, segments>>

mvars == <<multiline, aggregated, collected>>

xvars == <<document, resume, expanded>>

cvars == <<sample, json_content_type, threshold, classified>>

wvars == <<write_raised, unwritten>>

ovars == <<output, kwargs_raised>>

kvars == <<add_input_raised, added>>

\* What the actions of the pipeline, of the filter, of the comparison of
\* filters, of the identifier, of the segmenter, of the aggregator, of the
\* expander and of the classifier leave alone, and those of a shipper whose
\* writes can fail, of an output's configuration and of a Config.
not_pipeline == <<fvars, evars, ivars, lvars, mvars, xvars, cvars, wvars, ovars, kvars>>
not_filter == <<pvars, evars, ivars, lvars, mvars, xvars, cvars, wvars, ovars, kvars>>
not_eq == <<pvars, fvars, ivars, lvars, mvars, xvars, cvars, wvars, ovars, kvars>>
not_ident == <<pvars, fvars, evars, lvars, mvars, xvars, cvars, wvars, ovars, kvars>>
not_lines == <<pvars, fvars, evars, ivars, mvars, xvars, cvars, wvars, ovars, kvars>>
not_multiline == <<pvars, fvars, evars, ivars, lvars, xvars, cvars, wvars, ovars, kvars>>
not_expander == <<pvars, fvars, evars, ivars, lvars, mvars, cvars, wvars, ovars, kvars>>
not_classifier == <<pvars, fvars, evars, ivars, lvars, mvars, xvars, wvars, ovars, kvars>>
not_shipper == <<fvars, evars, ivars, lvars, mvars, xvars, cvars, ovars, kvars>>
not_output == <<pvars, fvars, evars, ivars, lvars, mvars, xvars, cvars, wvars, kvars>>
not_config == <<fvars, evars, ivars, lvars, mvars, xvars, cvars, wvars, ovars>>

vars == <<pvars, fvars, evars, ivars, lvars, mvars, xvars, cvars, wvars, ovars, kvars>>

\* ----------------------------------------------------------------- storage
\* The reads that stop at the first one that returns less than it asked for.
RECURSIVE generate_full_reads(_, _)
generate_full_reads(body, size) ==
  IF Len(body) < size THEN <<>>
  ELSE <<SubSeq(body, 1, size)>>
       \o generate_full_reads(SubSeq(body, size + 1, Len(body)), size)

\* One read only, with no loop around it.
generate_first_read(body, size) ==
  IF Len(body) = 0 THEN <<>>
  ELSE <<SubSeq(body, 1, IF Len(body) < size THEN Len(body) ELSE size)>>

\* S3Storage._generate reading size bytes at a time: body.read(size) until
\* the empty read.
RECURSIVE generate_by(_, _)
generate_by(body, size) ==
  IF Len(body) = 0 THEN <<>>
  ELSE LET n == IF Len(body) < size THEN Len(body) ELSE size
       IN <<SubSeq(body, 1, n)>> \o generate_by(SubSeq(body, n + 1, Len(body)), size)

\* S3Storage._generate: body.read(_chunk_size) until the empty read.
generate(body) == generate_by(body, ChunkSize)

\* The newline style a buffer shows, <<>> if it holds no delimiter yet: that
\* of its first line feed, which a carriage return precedes or not.
DetectNewline(buf) ==
  IF \E i \in 1..Len(buf) : buf[i] = LF
  THEN LET i == CHOOSE i \in 1..Len(buf) :
                  buf[i] = LF /\ \A j \in 1..(i - 1) : buf[j] # LF
       IN IF i > 1 /\ buf[i - 1] = CR THEN <<CR, LF>> ELSE <<LF>>
  ELSE <<>>

\* The delimiter newline starts at position i of the buffer.
NewlineAt(buf, newline, i) ==
  /\ newline # <<>>
  /\ i + Len(newline) - 1 <= Len(buf)
  /\ SubSeq(buf, i, i + Len(newline) - 1) = newline

\* The complete lines of a buffer: each line without its terminator, from its
\* first byte to the byte after its terminator; the rest stays buffered.  The
\* newline style is that of the first delimiter observed.
RECURSIVE SplitLines(_, _, _, _)
SplitLines(buf, off, out, newline) ==
  LET nl == IF newline = <<>> THEN DetectNewline(buf) ELSE newline
  IN IF \E i \in 1..Len(buf) : NewlineAt(buf, nl, i)
     THEN LET i == CHOOSE i \in 1..Len(buf) :
                     /\ NewlineAt(buf, nl, i)
                     /\ \A j \in 1..(i - 1) : ~NewlineAt(buf, nl, j)
              next == i + Len(nl)
          IN SplitLines(SubSeq(buf, next, Len(buf)), off + next - 1,
                        Append(out, [log_event |-> SubSeq(buf, 1, i - 1),
                                     beginning_offset |-> off,
                                     ending_offset |-> off + next - 1]),
                        nl)
     ELSE [out |-> out, rest |-> buf, off |-> off, newline |-> nl]

RECURSIVE by_line_chunks(_, _, _, _, _)
by_line_chunks(chunks, buf, off, out, newline) ==
  IF chunks = <<>>
  THEN IF buf = <<>> THEN out
       ELSE Append(out, [log_event |-> buf, beginning_offset |-> off,
                         ending_offset |-> off + Len(buf)])
  ELSE LET s == SplitLines(buf \o Head(chunks), off, out, newline)
       IN by_line_chunks(Tail(chunks), s.rest, s.off, s.out, s.newline)

\* The by_line decorator (the line segmenter): the lines of a chunk stream
\* with their offsets, a partial line buffered across chunks.
by_line(chunks, start) == by_line_chunks(chunks, <<>>, start, <<>>, <<>>)

\* The streams of the segmenter: one byte longer than the objects of the
\* store, with carriage returns.
Streams == SeqsUpTo({"a", CR, LF}, MaxLen + 1)

\* _generate is drained: the stream is read chunk by chunk and segmented.
GetByLines ==
  /\ ~segmented
  /\ segments' = by_line(generate_by(content, chunking), 0)
  /\ segmented' = TRUE
  /\ UNCHANGED <<content, chunking>>
  /\ UNCHANGED not_lines

\* Any stream, read with any chunk size up to one more than that of the
\* store.
LinesInit ==
  /\ content \in Streams
  /\ chunking \in 1..(ChunkSize + 1)
  /\ segmented = FALSE
  /\ segments = <<>>

\* No stream to segment.
LinesAtRest ==
  /\ content = <<>>
  /\ chunking = ChunkSize
  /\ segmented = FALSE
  /\ segments = <<>>

RECURSIVE Concat(_)
Concat(chunks) ==
  IF chunks = <<>> THEN <<>> ELSE Head(chunks) \o Concat(Tail(chunks))

\* get_object(Bucket, Key)["Body"]: no Range is asked for, so the body is
\* the whole object whatever range_start the caller holds.
get_object(store, bucket_name, object_key, range_start) ==
  store[<<bucket_name, object_key>>]

\* A range read whose lines are numbered from 0 again.
get_by_lines_ranged(store, bucket_name, object_key, range_start) ==
  LET body == get_object(store, bucket_name, object_key, range_start)
  IN by_line(generate(SubSeq(body, range_start + 1, Len(body))), 0)

\* S3Storage.get_by_lines: the lines of the object's body.  The handler holds
\* range_start (and last_beginning_offset) for the call; the method has no
\* parameter for either and reads the object from its first byte.
get_by_lines(store, bucket_name, object_key, range_start) ==
  by_line(generate(get_object(store, bucket_name, object_key, range_start)), 0)

\* utils.get_bucket_name_from_arn: the last part of the ARN.
get_bucket_name_from_arn(arn) == <<arn[Len(arn)]>>

\* ------------------------------------------------------------------ config
\* Config.get_input_by_type_and_id
get_input_by_type_and_id(inp, input_type, input_id) ==
  IF input_type \notin DOMAIN inp THEN None
  ELSE IF input_id \in DOMAIN inp[input_type] THEN inp[input_type][input_id]
       ELSE None

\* _available_input_types: the types an Input can be constructed with.
AvailableInputTypes == {"sqs"}

\* The ids of the inputs given to add_input.
InputIds == {ConfiguredArn, UnconfiguredArn}

\* The most calls of add_input on one Config.
MaxAdds == 3

\* The Input objects given to add_input: two of them of the same type and
\* id are told apart by the object they are.
Inputs == [type : AvailableInputTypes, id : InputIds, object : 1..MaxAdds]

\* add_input that replaces the input registered.
add_input_replacing(inp, new_input) ==
  IF new_input.type \notin DOMAIN inp
    THEN [inputs |-> (new_input.type :> (new_input.id :> new_input)) @@ inp,
          raised |-> FALSE]
    ELSE [inputs |-> [inp EXCEPT ![new_input.type] =
                        (new_input.id :> new_input) @@ @],
          raised |-> FALSE]

\* Config.add_input: the inputs after the call, and whether it raised.
add_input(inp, new_input) ==
  IF new_input.type \notin DOMAIN inp
    THEN [inputs |-> (new_input.type :> (new_input.id :> new_input)) @@ inp,
          raised |-> FALSE]
  ELSE IF new_input.id \in DOMAIN inp[new_input.type]
    THEN [inputs |-> inp, raised |-> TRUE]
  ELSE [inputs |-> [inp EXCEPT ![new_input.type] =
                      (new_input.id :> new_input) @@ @],
        raised |-> FALSE]

\* A call of add_input on the Config, as parse_config makes for each input
\* of the configuration in order.
AddInput(new_input) ==
  /\ UNCHANGED not_config
  /\ Len(added) < MaxAdds
  /\ LET r == add_input(inputs, new_input)
     IN /\ inputs' = r.inputs
        /\ add_input_raised' = r.raised
  /\ added' = Append(added, new_input)
  /\ UNCHANGED <<objects, trigger, event, invocation, pc, sqs_record_n,
                 s3_record_n, lines, idx, readBytes, fields, yielded, emitted,
                 skipped, cls_bulk_actions, shipper, sent, handed, backend,
                 conflicts>>

\* No call of add_input made.
ConfigAtRest ==
  /\ add_input_raised = FALSE
  /\ added = <<>>

\* ----------------------------------------------------------------- shipper
\* The width f"{offset:012d}" pads to.
OffsetWidth == 12

RECURSIVE Digits(_)
Digits(n) == IF n < 10 THEN <<n>> ELSE Append(Digits(n \div 10), n % 10)

\* f"{offset:012d}" for the offset whose decimal digits are d: the digits,
\* zero-padded on the left to at least OffsetWidth characters.
zero_pad(d) ==
  IF Len(d) >= OffsetWidth THEN d
  ELSE [i \in 1..(OffsetWidth - Len(d)) |-> 0] \o d

ZeroPad(n) == zero_pad(Digits(n))

\* hashlib.sha256(src).hexdigest()[:10], taken as collision-free: the hash of
\* a string stands for the string hashed.
hex_prefix(src) == src

\* The identifier derived from the object key alone.
object_id_of_key(bucket_arn, object_key, digits) ==
  [hex_prefix |-> hex_prefix(object_key), offset |-> zero_pad(digits)]

\* ElasticsearchShipper._s3_object_id on the three values it reads from the
\* payload, the offset given by its decimal digits: f"{hex_prefix}-{offset:012d}".
\* The prefix has ten characters whatever it is, so the two parts determine
\* the string and the string the two parts.
object_id(bucket_arn, object_key, digits) ==
  [hex_prefix |-> hex_prefix(bucket_arn \o object_key),
   offset |-> zero_pad(digits)]

\* ElasticsearchShipper._s3_object_id
s3_object_id(flds) ==
  object_id(flds.bucket_arn, flds.object_key, Digits(flds.offset))

\* A shipper instance: own says whether the instance has been assigned its
\* own _bulk_actions attribute; until then self._bulk_actions is the class
\* attribute, which append() changes in place.
NewShipper == [own |-> FALSE, bulk_actions |-> <<>>]

bulk_actions_of(cls, inst) == IF inst.own THEN inst.bulk_actions ELSE cls

\* The test `len(self._bulk_actions) > 1` that guards the write in flush().
flush_writes(pending) == Len(pending) > 1

\* The action with _op_type "index".
bulk_action_index(flds) ==
  [op_type |-> "index", id |-> s3_object_id(flds), original |-> flds.message]

\* ElasticsearchShipper.send, the action it builds of the event:
\* event.original is set by _enrich_event, _op_type is "create" and _id is
\* _s3_object_id(event).
bulk_action(flds) ==
  [op_type |-> "create", id |-> s3_object_id(flds), original |-> flds.message]

\* send() writing only once the batch is over the threshold.
send_late(cls, inst, action) ==
  LET appended == Append(bulk_actions_of(cls, inst), action)
      cls1 == IF inst.own THEN cls ELSE appended
      inst1 == IF inst.own THEN [inst EXCEPT !.bulk_actions = appended] ELSE inst
  IN IF Len(appended) <= BulkBatchSize
     THEN [cls |-> cls1, inst |-> inst1, bulk |-> <<>>]
     ELSE [cls |-> cls1, inst |-> [own |-> TRUE, bulk_actions |-> <<>>],
           bulk |-> appended]

\* A send that writes the full batch and keeps it.
send_keeping(cls, inst, action) ==
  LET appended == Append(bulk_actions_of(cls, inst), action)
      cls1 == IF inst.own THEN cls ELSE appended
      inst1 == IF inst.own THEN [inst EXCEPT !.bulk_actions = appended] ELSE inst
  IN [cls |-> cls1, inst |-> inst1,
      bulk |-> IF Len(appended) < BulkBatchSize THEN <<>> ELSE appended]

\* ElasticsearchShipper.send, after the action is built: append, and write
\* the batch once it is full.  bulk is the batch handed to es_bulk, <<>> if
\* none is.
send(cls, inst, action) ==
  LET appended == Append(bulk_actions_of(cls, inst), action)
      cls1 == IF inst.own THEN cls ELSE appended
      inst1 == IF inst.own THEN [inst EXCEPT !.bulk_actions = appended] ELSE inst
  IN IF Len(appended) < BulkBatchSize
     THEN [cls |-> cls1, inst |-> inst1, bulk |-> <<>>]
     ELSE [cls |-> cls1, inst |-> [own |-> TRUE, bulk_actions |-> <<>>],
           bulk |-> appended]

\* ElasticsearchShipper.flush
flush(cls, inst) ==
  LET pending == bulk_actions_of(cls, inst)
  IN [cls |-> cls, inst |-> [own |-> TRUE, bulk_actions |-> <<>>],
      bulk |-> IF flush_writes(pending) THEN pending ELSE <<>>]

\* elasticsearch.helpers.bulk: a "create" action creates a document unless
\* one with its _id exists, an "index" action creates it or takes its place.
\* Every action's "fields" is the one shared dict, so the document carries
\* what that dict holds when the batch is written.
RECURSIVE es_bulk(_, _, _)
es_bulk(docs, actions, flds) ==
  IF actions = <<>> THEN docs
  ELSE LET a == Head(actions)
           doc == [id |-> a.id, original |-> a.original, fields |-> flds]
           docs1 == IF \E d \in docs : d.id = a.id
                    THEN IF a.op_type = "create" THEN docs
                         ELSE {d \in docs : d.id # a.id} \cup {doc}
                    ELSE docs \cup {doc}
       IN es_bulk(docs1, Tail(actions), flds)

\* The ids of the "create" actions of a batch that found their document
\* there already.
RECURSIVE es_conflicts(_, _, _)
es_conflicts(docs, actions, flds) ==
  IF actions = <<>> THEN {}
  ELSE LET a == Head(actions)
       IN (IF a.op_type = "create" /\ \E d \in docs : d.id = a.id
           THEN {a.id} ELSE {})
          \cup es_conflicts(es_bulk(docs, <<a>>, flds), Tail(actions), flds)

Ids(actions) == [i \in 1..Len(actions) |-> actions[i].id]

\* The decimal digits of offsets up to one that needs more than OffsetWidth
\* digits: 0, 7, 10, 99...9 (OffsetWidth nines) and 100...0 (OffsetWidth zeros).
Numerals ==
  {<<0>>, <<7>>, <<1, 0>>,
   [i \in 1..OffsetWidth |-> 9],
   <<1>> \o [i \in 1..OffsetWidth |-> 0]}

\* Event payloads: the fields of the event record, for two buckets and two
\* keys, with any offset, message and region.
Payloads ==
  [bucket_arn : {<<"arn:", "b">>, <<"arn:", "b", "k">>},
   object_key : {<<"k">>, <<"k", "k">>},
   offset : Numerals,
   message : {<<>>, <<"a">>},
   region : {"eu", "us"}]

\* _s3_object_id is called on each of the two payloads.
S3ObjectId ==
  /\ ident = <<>>
  /\ ident' = [i \in 1..2 |-> object_id(payload[i].bucket_arn,
                                          payload[i].object_key,
                                          payload[i].offset)]
  /\ UNCHANGED payload
  /\ UNCHANGED not_ident

\* Any two payloads, no identifier computed yet.
IdentInit ==
  /\ payload \in [1..2 -> Payloads]
  /\ ident = <<>>

\* No payload to identify.
IdentAtRest ==
  /\ payload = <<>>
  /\ ident = <<>>

\* ------------------------------------------------------------------ filter
Chars == {"a", "b"}
Patterns == {<<"a">>, <<"b">>}
Messages == SeqsUpTo(Chars, MaxMessageLen)

\* An Optional[list[str]] argument: None, or a list of patterns.
PatternArgs == {None} \cup {[list |-> l] : l \in SeqsUpTo(Patterns, MaxPatterns)}

\* The callers of filter().
Callers == {1, 2}

\* The matcher: a pattern matches a message it occurs in.
Occurs(p, m) ==
  \E i \in 1..(Len(m) - Len(p) + 1) : SubSeq(m, i, i + Len(p) - 1) = p

\* IncludeExcludeRule.__init__: pattern number n is compiled with id n + 1,
\* n counted from 0.  The ids of the patterns that match the message.
MatchIds(rule, m) ==
  {n \in 1..Len(rule.patterns) : Occurs(rule.patterns[n], m)}

\* on_match taking the first pattern's id for no match.
on_match_above_one(match_id) == match_id > 1

\* on_match: `if match_id > 0`, then the flag is set and the scan ended.
on_match(match_id) == match_id > 0

\* IncludeExcludeRule.scan with on_match as its handler: the scan completes,
\* having called on_match for the matches, or it raises hyperscan.error,
\* before or after on_match was called.  matched says whether on_match set
\* the flag.
ScanOutcomes(rule, m) ==
  LET hit == \E id \in MatchIds(rule, m) : on_match(id)
  IN {[raised |-> FALSE, matched |-> hit]}
     \cup {[raised |-> TRUE, matched |-> b] : b \in {FALSE, hit}}

\* A rule without the test of the list's length.
make_rule_unchecked(patterns) ==
  IF patterns # None THEN [patterns |-> patterns.list] ELSE None

\* `if patterns is not None and len(patterns) > 0`: the rule of a pattern
\* list, None if there is none.
make_rule(patterns) ==
  IF patterns # None /\ Len(patterns.list) > 0
  THEN [patterns |-> patterns.list]
  ELSE None

\* IncludeExcludeFilter.__init__
new_filter(include_patterns, exclude_patterns) ==
  LET inc == make_rule(include_patterns)
      exc == make_rule(exclude_patterns)
  IN [include_rules |-> inc,
      exclude_rules |-> exc,
      always_yield |-> inc = None /\ exc = None,
      include_only |-> inc # None /\ exc = None,
      exclude_only |-> exc # None /\ inc = None,
      is_included_matched |-> FALSE,
      is_excluded_matched |-> FALSE]

\* The branch filter() takes.
dispatch(f) ==
  IF f.always_yield THEN "always_yield"
  ELSE IF f.include_only THEN "include_only"
  ELSE IF f.exclude_only THEN "exclude_only"
  ELSE "both"

\* filter() consulting the include rules whatever _is_excluded returned.
on_excluded_return_ignored(mode, v) ==
  IF mode = "exclude_only" THEN [done |-> TRUE, result |-> ~v]
  ELSE [done |-> FALSE, result |-> FALSE]

\* What filter() does with the value v of _is_excluded: `return not v` when
\* only exclude rules exist; otherwise `return False` if v, and the include
\* rules are consulted if not.
on_excluded_return(mode, v) ==
  IF mode = "exclude_only" THEN [done |-> TRUE, result |-> ~v]
  ELSE IF v THEN [done |-> TRUE, result |-> FALSE]
  ELSE [done |-> FALSE, result |-> FALSE]

\* filter(message) is called: the branch is chosen.
FilterCall(t, m) ==
  /\ fpc[t] = "idle"
  /\ fmessage' = [fmessage EXCEPT ![t] = m]
  /\ fraised' = [fraised EXCEPT ![t] = FALSE]
  /\ LET mode == dispatch(filter_)
     IN /\ fmode' = [fmode EXCEPT ![t] = mode]
        /\ IF mode = "always_yield"
           THEN /\ fresult' = [fresult EXCEPT ![t] = TRUE]
                /\ fpc' = [fpc EXCEPT ![t] = "returned"]
           ELSE /\ fresult' = fresult
                /\ fpc' = [fpc EXCEPT ![t] =
                             IF mode = "include_only" THEN "inc_reset"
                             ELSE "exc_reset"]
  /\ UNCHANGED <<filter_, fargs>>
  /\ UNCHANGED not_filter

\* _is_included without `self._is_included_matched = False`.
IsIncludedKeepingFlag(t) ==
  /\ fpc[t] = "inc_reset"
  /\ fpc' = [fpc EXCEPT ![t] = IF filter_.include_rules = None
                                THEN "assertion_failed" ELSE "inc_scan"]
  /\ UNCHANGED <<filter_, fargs, fmessage, fmode, fraised, fresult>>
  /\ UNCHANGED not_filter

\* _is_included: the assertion and `self._is_included_matched = False`.
IsIncludedReset(t) ==
  /\ fpc[t] = "inc_reset"
  /\ IF filter_.include_rules = None
     THEN /\ fpc' = [fpc EXCEPT ![t] = "assertion_failed"]
          /\ filter_' = filter_
     ELSE /\ fpc' = [fpc EXCEPT ![t] = "inc_scan"]
          /\ filter_' = [filter_ EXCEPT !.is_included_matched = FALSE]
  /\ UNCHANGED <<fargs, fmessage, fmode, fraised, fresult>>
  /\ UNCHANGED not_filter

\* _is_included: the scan; `return True` if it raises.
IsIncludedScan(t) ==
  /\ fpc[t] = "inc_scan"
  /\ \E o \in ScanOutcomes(filter_.include_rules, fmessage[t]) :
       /\ filter_' = [filter_ EXCEPT !.is_included_matched = @ \/ o.matched]
       /\ IF o.raised
          THEN /\ fraised' = [fraised EXCEPT ![t] = TRUE]
               /\ fresult' = [fresult EXCEPT ![t] = TRUE]
               /\ fpc' = [fpc EXCEPT ![t] = "returned"]
          ELSE /\ fpc' = [fpc EXCEPT ![t] = "inc_test"]
               /\ UNCHANGED <<fraised, fresult>>
  /\ UNCHANGED <<fargs, fmessage, fmode>>
  /\ UNCHANGED not_filter

\* _is_included: `if self._is_included_matched: return True`, `return False`;
\* filter() returns that value.
IsIncludedTest(t) ==
  /\ fpc[t] = "inc_test"
  /\ fresult' = [fresult EXCEPT ![t] = filter_.is_included_matched]
  /\ fpc' = [fpc EXCEPT ![t] = "returned"]
  /\ UNCHANGED <<filter_, fargs, fmessage, fmode, fraised>>
  /\ UNCHANGED not_filter

\* _is_excluded: the assertion and `self._is_excluded_matched = False`.
IsExcludedReset(t) ==
  /\ fpc[t] = "exc_reset"
  /\ IF filter_.exclude_rules = None
     THEN /\ fpc' = [fpc EXCEPT ![t] = "assertion_failed"]
          /\ filter_' = filter_
     ELSE /\ fpc' = [fpc EXCEPT ![t] = "exc_scan"]
          /\ filter_' = [filter_ EXCEPT !.is_excluded_matched = FALSE]
  /\ UNCHANGED <<fargs, fmessage, fmode, fraised, fresult>>
  /\ UNCHANGED not_filter

\* _is_excluded: the scan; `return True` if it raises, and what filter()
\* does with that value.
IsExcludedScan(t) ==
  /\ fpc[t] = "exc_scan"
  /\ \E o \in ScanOutcomes(filter_.exclude_rules, fmessage[t]) :
       /\ filter_' = [filter_ EXCEPT !.is_excluded_matched = @ \/ o.matched]
       /\ IF o.raised
          THEN LET r == on_excluded_return(fmode[t], TRUE)
               IN /\ fraised' = [fraised EXCEPT ![t] = TRUE]
                  /\ IF r.done
                     THEN /\ fresult' = [fresult EXCEPT ![t] = r.result]
                          /\ fpc' = [fpc EXCEPT ![t] = "returned"]
                     ELSE /\ fresult' = fresult
                          /\ fpc' = [fpc EXCEPT ![t] = "inc_reset"]
          ELSE /\ fpc' = [fpc EXCEPT ![t] = "exc_test"]
               /\ UNCHANGED <<fraised, fresult>>
  /\ UNCHANGED <<fargs, fmessage, fmode>>
  /\ UNCHANGED not_filter

\* _is_excluded: `if self._is_excluded_matched: return True`, `return False`,
\* and what filter() does with that value.
IsExcludedTest(t) ==
  /\ fpc[t] = "exc_test"
  /\ LET r == on_excluded_return(fmode[t], filter_.is_excluded_matched)
     IN IF r.done
        THEN /\ fresult' = [fresult EXCEPT ![t] = r.result]
             /\ fpc' = [fpc EXCEPT ![t] = "returned"]
        ELSE /\ fresult' = fresult
             /\ fpc' = [fpc EXCEPT ![t] = "inc_reset"]
  /\ UNCHANGED <<filter_, fargs, fmessage, fmode, fraised>>
  /\ UNCHANGED not_filter

\* The caller has the value of filter() and may call again.
FilterReturn(t) ==
  /\ fpc[t] = "returned"
  /\ fpc' = [fpc EXCEPT ![t] = "idle"]
  /\ UNCHANGED <<filter_, fargs, fmessage, fmode, fraised, fresult>>
  /\ UNCHANGED not_filter

\* The pattern lists of a filter two callers share, and the message each of
\* them filters: the pattern matches that of the first caller only.
SharedPatternArgs == {None, [list |-> <<<<"a">>>>]}
MessageOf(t) == IF t = 1 THEN <<"a">> ELSE <<"b">>

\* No caller yet.
CallersIdle ==
  /\ fpc = [t \in Callers |-> "idle"]
  /\ fmessage = [t \in Callers |-> <<>>]
  /\ fmode = [t \in Callers |-> "always_yield"]
  /\ fraised = [t \in Callers |-> FALSE]
  /\ fresult = [t \in Callers |-> TRUE]

\* A filter constructed from any two pattern lists.
FilterInit ==
  /\ \E inc \in PatternArgs, exc \in PatternArgs :
       /\ fargs = [include |-> inc, exclude |-> exc]
       /\ filter_ = new_filter(inc, exc)
  /\ CallersIdle

\* The filter of an invocation that configures no rules.
FilterAtRest ==
  /\ fargs = [include |-> None, exclude |-> None]
  /\ filter_ = new_filter(None, None)
  /\ CallersIdle

\* What a failed `assert isinstance(other, IncludeExcludeRule)` raises; with
\* assertions compiled out, what `other.patterns` raises on None.
EqErrors == {"AssertionError", "AttributeError"}

\* IncludeExcludeRule.__eq__: the outcomes of self == other_rule, self a rule.
rule_eq(self, other_rule) ==
  IF other_rule = None THEN EqErrors
  ELSE IF self.patterns = other_rule.patterns THEN {"True"} ELSE {"False"}

\* a == b for two Optional[IncludeExcludeRule]: None == None is True; a rule
\* on the left answers with its __eq__; None on the left answers
\* NotImplemented and the rule on the right is asked, with None as its other.
optional_rule_eq(a, b) ==
  IF a = None /\ b = None THEN {"True"}
  ELSE IF a # None THEN rule_eq(a, b)
  ELSE rule_eq(b, a)

\* IncludeExcludeFilter.__eq__: the include rules are compared, and the
\* exclude rules only if those are equal.
filter_eq(f, g) ==
  LET inc == optional_rule_eq(f.include_rules, g.include_rules)
  IN (inc \ {"True"})
     \cup (IF "True" \in inc
          THEN optional_rule_eq(f.exclude_rules, g.exclude_rules)
          ELSE {})

\* `filter_ == other` is evaluated.
FilterEq ==
  /\ eq = "pending"
  /\ eq' \in filter_eq(filter_, other)
  /\ UNCHANGED <<gargs, other>>
  /\ UNCHANGED not_eq

\* A second filter constructed from any two pattern lists, not yet compared.
EqInit ==
  /\ \E inc \in PatternArgs, exc \in PatternArgs :
       /\ gargs = [include |-> inc, exclude |-> exc]
       /\ other = new_filter(inc, exc)
  /\ eq = "pending"

\* No second filter to compare with.
EqAtRest ==
  /\ gargs = [include |-> None, exclude |-> None]
  /\ other = new_filter(None, None)
  /\ eq = "none"

\* -------------------------------------------------------------- multiline
\* The most lines a count multiline merges, the longest stream the
\* aggregator is given.
MaxCountLines == 3
MaxStreamLen == 7

\* The streams the aggregator is given the lines of.
LineStreams == SeqsUpTo(Bytes, MaxStreamLen)

\* The multiline configurations: count with its line count; pattern with its
\* match mode, its negate flag and its optional flush pattern; while with its
\* negate flag.  The pattern is "a", the flush pattern "aa".
MultilineConfigs ==
  {[type |-> "count", count_lines |-> c] : c \in 1..MaxCountLines}
  \cup {[type |-> "pattern", pattern |-> <<"a">>, match |-> m, negate |-> n,
         flush_pattern |-> f] :
          m \in {"after", "before"}, n \in BOOLEAN,
          f \in {None, [pattern |-> <<"a", "a">>]}}
  \cup {[type |-> "while", pattern |-> <<"a">>, negate |-> n] : n \in BOOLEAN}

\* Lines concatenated with the delimiter between them.
RECURSIVE JoinLines(_, _)
JoinLines(pending, newline) ==
  IF Len(pending) = 1 THEN pending[1].log_event
  ELSE pending[1].log_event \o newline \o JoinLines(Tail(pending), newline)

\* The event the buffered lines are flushed as: their text, from the first
\* byte of the first of them to the byte after the last of them.
multiline_event(pending, newline) ==
  [log_event |-> JoinLines(pending, newline),
   beginning_offset |-> pending[1].beginning_offset,
   ending_offset |-> pending[Len(pending)].ending_offset]

\* The multiline state with its buffered lines emitted as one event, if it
\* buffers any.
flush_pending(st, newline) ==
  IF st.pending = <<>> THEN st
  ELSE [pending |-> <<>>,
        out |-> Append(st.out, multiline_event(st.pending, newline))]

buffer_line(st, line) == [st EXCEPT !.pending = Append(st.pending, line)]

\* A count that flushes one line late.
count_feed_late(st, line, cfg, newline) ==
  LET st1 == buffer_line(st, line)
  IN IF Len(st1.pending) > cfg.count_lines THEN flush_pending(st1, newline)
     ELSE st1

\* Count: the line is buffered, and the buffer flushed when it holds
\* count_lines lines.
count_feed(st, line, cfg, newline) ==
  LET st1 == buffer_line(st, line)
  IN IF Len(st1.pending) >= cfg.count_lines THEN flush_pending(st1, newline)
     ELSE st1

\* Pattern: in after mode a line that matches (that does not, negated) starts
\* a new event, in before mode it ends the event it is appended to; a line
\* that matches the flush pattern ends the event at once.
pattern_feed(st, line, cfg, newline) ==
  LET marks == Occurs(cfg.pattern, line.log_event) # cfg.negate
      st1 == IF cfg.match = "after"
             THEN buffer_line(IF marks THEN flush_pending(st, newline) ELSE st,
                              line)
             ELSE IF marks THEN flush_pending(buffer_line(st, line), newline)
                  ELSE buffer_line(st, line)
  IN IF /\ cfg.flush_pattern # None
        /\ Occurs(cfg.flush_pattern.pattern, line.log_event)
     THEN flush_pending(st1, newline)
     ELSE st1

\* While: a line that matches (that does not, negated) is appended to the
\* current event; another line closes that event and starts the next.
while_feed(st, line, cfg, newline) ==
  LET continues == Occurs(cfg.pattern, line.log_event) # cfg.negate
  IN IF continues THEN buffer_line(st, line)
     ELSE buffer_line(flush_pending(st, newline), line)

\* The aggregator dispatches on the strategy.
feed(st, line, cfg, newline) ==
  IF cfg.type = "count" THEN count_feed(st, line, cfg, newline)
  ELSE IF cfg.type = "pattern" THEN pattern_feed(st, line, cfg, newline)
  ELSE while_feed(st, line, cfg, newline)

RECURSIVE feed_all(_, _, _, _)
feed_all(segs, st, cfg, newline) ==
  IF segs = <<>> THEN st
  ELSE feed_all(Tail(segs), feed(st, Head(segs), cfg, newline), cfg, newline)

\* An end of stream that drops what is buffered.
finalize_dropping(st, newline) == st.out

\* End of stream: what is buffered is flushed.
finalize(st, newline) == flush_pending(st, newline).out

\* The aggregator over the lines of one object.
collect(segs, cfg, newline) ==
  finalize(feed_all(segs, [pending |-> <<>>, out |-> <<>>], cfg, newline),
           newline)

\* The lines of the stream are merged into events.
Collect ==
  /\ segmented
  /\ ~aggregated
  /\ collected' = collect(segments, multiline, DetectNewline(content))
  /\ aggregated' = TRUE
  /\ UNCHANGED multiline
  /\ UNCHANGED not_multiline

\* Any configuration, over lines that are still to be read.
MultilineInit ==
  /\ multiline \in MultilineConfigs
  /\ aggregated = FALSE
  /\ collected = <<>>

\* No aggregator.
MultilineAtRest ==
  /\ multiline = None
  /\ aggregated = FALSE
  /\ collected = <<>>

\* --------------------------------------------------------------- expander
\* The most elements of the list that is expanded.
MaxElements == 3

\* The field the expander is configured with, and another one.
FieldToExpand == "pleaseExpand"
OtherField == "other"

\* The serialized elements of a list: JSON values of one or two characters.
Elements == {<<"1">>, <<"7">>, <<"1", "0">>}

\* The parsed documents: the field holds a list, or a value that is not a
\* list, or is absent.
Documents ==
  {(FieldToExpand :> [list |-> l]) : l \in SeqsUpTo(Elements, MaxElements)}
  \cup {(FieldToExpand :> [text |-> <<"1">>])}
  \cup {(OtherField :> [list |-> <<<<"1">>>>])}

\* The value-resolver callback: the field's runtime value in the document.
resolver(doc, field) == doc[field]

\* The position of the first byte of element number i, numbered from 0, in
\* the serialized list: after the opening bracket, the elements before it
\* and their separators.
RECURSIVE element_position(_, _)
element_position(list, i) ==
  IF i = 0 THEN 1
  ELSE element_position(list, i - 1) + Len(list[i]) + 1

\* The position of an element counted from the element resumed from.
element_position_from_resume(list, i, from) ==
  element_position(list, i) - element_position(list, from) + 1

\* The position of an element whatever the index resumed from.
element_position_from(list, i, from) == element_position(list, i)

\* The event of element number i, numbered from 0.
element_event(list, i, from, starting_offset) ==
  LET beginning == starting_offset + element_position_from(list, i, from)
  IN [log_event |-> list[i + 1],
      beginning_offset |-> beginning,
      ending_offset |-> beginning + Len(list[i + 1]),
      element |-> i]

NotApplicable == [type |-> "NotApplicable"]

\* The expander: one event per element of the list from the resume index
\* on, or not applicable if the field is absent or holds no list.
expand(doc, field, from, starting_offset) ==
  IF field \notin DOMAIN doc THEN NotApplicable
  ELSE LET value == resolver(doc, field)
       IN IF "list" \notin DOMAIN value THEN NotApplicable
          ELSE [events |->
                  [j \in 1..(IF from < Len(value.list)
                             THEN Len(value.list) - from ELSE 0) |->
                     element_event(value.list, from + j - 1, from,
                                   starting_offset)]]

\* The document is expanded from the resume index.
Expand ==
  /\ expanded = None
  /\ expanded' = expand(document, FieldToExpand, resume, 0)
  /\ UNCHANGED <<document, resume>>
  /\ UNCHANGED not_expander

\* Any document, resumed from any element index.
ExpanderInit ==
  /\ document \in Documents
  /\ resume \in 0..MaxElements
  /\ expanded = None

\* No document to expand.
ExpanderAtRest ==
  /\ document = (OtherField :> [list |-> <<>>])
  /\ resume = 0
  /\ expanded = None

\* ------------------------------------------------------------- classifier
\* The largest object the classifier is given, the largest threshold.
MaxObjectSize == 5
MaxThreshold == 2

\* The objects the classifier is given: braces and line feeds.
Samples == SeqsUpTo({"{", "}", LF}, MaxObjectSize)

\* The configured JSON content types; a type, like None, is a record.
JsonContentTypes ==
  {None, [type |-> "single"], [type |-> "ndjson"], [type |-> "disabled"]}

\* The size the chunk reader declares for an object.
declared_size(body) == Len(body)

RECURSIVE strip_newlines(_)
strip_newlines(body) ==
  IF body = <<>> THEN <<>>
  ELSE IF Head(body) = LF THEN strip_newlines(Tail(body))
  ELSE <<Head(body)>> \o strip_newlines(Tail(body))

\* The text is one JSON document: an object with nothing in it.
is_document(text) == strip_newlines(text) = <<"{", "}">>

\* The text, without the line feeds that end it.
RECURSIVE strip_trailing(_)
strip_trailing(body) ==
  IF body # <<>> /\ body[Len(body)] = LF
  THEN strip_trailing(SubSeq(body, 1, Len(body) - 1))
  ELSE body

\* The text is two or more lines, each one a JSON document.
is_ndjson(body) ==
  LET ls == by_line(<<strip_trailing(body)>>, 0)
  IN /\ Len(ls) >= 2
     /\ \A i \in 1..Len(ls) : ls[i].log_event = <<"{", "}">>

\* What the content is sampled as: a single JSON document, NDJSON, JSON-like
\* (it starts with a brace and is not valid JSON) or plain.
sampled(body) ==
  IF is_document(body) THEN [type |-> "single"]
  ELSE IF is_ndjson(body) THEN [type |-> "ndjson"]
  ELSE IF body # <<>> /\ body[1] = "{" THEN [type |-> "json_like"]
  ELSE [type |-> "plain"]

\* What the classifier decides below the threshold: what the configuration
\* says, or what the content is sampled as.
classify_below(body, configured) ==
  IF configured # None THEN configured ELSE sampled(body)

\* A circuit breaker that spares valid JSON.
classify_sparing(body, size, configured, limit) ==
  IF size > limit /\ sampled(body).type \notin {"single", "ndjson"}
  THEN [type |-> "plain"]
  ELSE classify_below(body, configured)

\* The classifier with its circuit breaker: an object whose declared size
\* exceeds the threshold is plain.
classify(body, size, configured, limit) ==
  IF size > limit THEN [type |-> "plain"]
  ELSE classify_below(body, configured)

\* The object is classified, once, before its lines are processed.
Classify ==
  /\ classified = None
  /\ classified' = classify(sample, declared_size(sample), json_content_type,
                            threshold)
  /\ UNCHANGED <<sample, json_content_type, threshold>>
  /\ UNCHANGED not_classifier

\* Any object, under any configuration.
ClassifierInit ==
  /\ sample \in Samples
  /\ json_content_type \in JsonContentTypes
  /\ threshold \in 1..MaxThreshold
  /\ classified = None

\* No object to classify.
ClassifierAtRest ==
  /\ sample = <<>>
  /\ json_content_type = None
  /\ threshold = MaxThreshold
  /\ classified = None

\* ----------------------------------------------------------------- handler
S3Idents ==
  {[awsRegion |-> Region, bucket_arn |-> BucketArn, object_key |-> ObjectKey],
   [awsRegion |-> Region, bucket_arn |-> BucketArn, object_key |-> Empty],
   [awsRegion |-> Region, bucket_arn |-> Empty, object_key |-> ObjectKey]}

\* The SQS records whose body lists at most m S3 records.
SqsRecords(m) ==
  [eventSourceARN : {ConfiguredArn, UnconfiguredArn},
   body : SeqsUpTo(S3Idents, m)]

\* The lambda events of at most k SQS records that hold at most m S3 records
\* between them.
RECURSIVE EventsUpTo(_, _)
EventsUpTo(k, m) ==
  IF k = 0 THEN {<<>>}
  ELSE {<<>>}
       \cup UNION {{<<r>> \o ev : ev \in EventsUpTo(k - 1, m - Len(r.body))} :
                     r \in SqsRecords(m)}

\* The lambda events: at most MaxSqsRecords SQS records that hold at most
\* MaxS3Records S3 records between them.
Events == EventsUpTo(MaxSqsRecords, MaxS3Records)

\* The lambda events of one more SQS record, holding one more S3 record
\* between them.
EventsOfMany == EventsUpTo(MaxSqsRecords + 1, MaxS3Records + 1)

\* The S3 record r carrying the resume cursor (b, e).
WithCursor(r, b, e) ==
  [last_ending_offset |-> e, last_beginning_offset |-> b] @@ r

\* The event ev with the cursor (b, e) on its first S3 record, if it has one.
CursorOnFirst(ev, b, e) ==
  IF ev = <<>> \/ ev[1].body = <<>> THEN ev
  ELSE [ev EXCEPT ![1].body[1] = WithCursor(ev[1].body[1], b, e)]

\* The cursor taken from the other offset of the record.
last_ending_offset_from_beginning(r) ==
  IF "last_beginning_offset" \in DOMAIN r THEN r.last_beginning_offset ELSE 0

\* s3_record["last_ending_offset"] if "last_ending_offset" in s3_record else 0
last_ending_offset_of(r) ==
  IF "last_ending_offset" \in DOMAIN r THEN r.last_ending_offset ELSE 0

last_beginning_offset_of(r) ==
  IF "last_beginning_offset" \in DOMAIN r THEN r.last_beginning_offset ELSE 0

\* The skip test with <= for <.
ShouldSkipLe(ending_offset, last_ending_offset) ==
  ending_offset <= last_ending_offset

\* The test `ending_offset < last_ending_offset` that skips a storage event.
ShouldSkip(ending_offset, last_ending_offset) ==
  ending_offset < last_ending_offset

\* The S3 record the handler is working on.
s3_record == event[sqs_record_n + 1].body[s3_record_n + 1]

StoreKey == <<get_bucket_name_from_arn(BucketArn), ObjectKey>>

\* _default_event["fields"] before any event is built.
DefaultFields ==
  [message |-> <<>>, offset |-> 0, path |-> <<>>, bucket_name |-> <<>>,
   bucket_arn |-> <<>>, object_key |-> <<>>, region |-> ""]

NoTuple ==
  [beginning_offset |-> 0, ending_offset |-> 0, sqs_record_n |-> 0,
   s3_record_n |-> 0, message |-> <<>>]

\* The first invocation is about to start: one input configured, nothing
\* read, nothing sent, a new shipper in a new process.
PipelineStart ==
  /\ inputs = ("sqs" :> (ConfiguredArn :> [type |-> "sqs", id |-> ConfiguredArn]))
  /\ event = trigger
  /\ invocation = 1
  /\ pc = "sqs_loop"
  /\ sqs_record_n = 0
  /\ s3_record_n = 0
  /\ lines = <<>>
  /\ idx = 0
  /\ readBytes = <<>>
  /\ fields = DefaultFields
  /\ yielded = NoTuple
  /\ emitted = <<>>
  /\ skipped = <<>>
  /\ cls_bulk_actions = <<>>
  /\ shipper = NewShipper
  /\ sent = <<>>
  /\ handed = <<>>
  /\ backend = {}
  /\ conflicts = {}

PipelineInit ==
  /\ objects \in [{StoreKey} -> Contents]
  /\ \E ev \in Events :
       \/ trigger = ev
       \/ \E e \in 1..(MaxLen + 1) :
            /\ ev # <<>> /\ ev[1].body # <<>>
            /\ trigger = CursorOnFirst(ev, 0, e)
  /\ PipelineStart

\* for sqs_record_n, sqs_record in enumerate(event["Records"]): the lookup of
\* the input, and the return when there is none.
NextSqsRecord ==
  /\ UNCHANGED not_pipeline
  /\ pc = "sqs_loop"
  /\ IF sqs_record_n >= Len(event)
     THEN pc' = "exhausted" /\ UNCHANGED s3_record_n
     ELSE LET event_input ==
                get_input_by_type_and_id(inputs, "sqs",
                                         event[sqs_record_n + 1].eventSourceARN)
          IN IF event_input = None
             THEN pc' = "returned" /\ UNCHANGED s3_record_n
             ELSE pc' = "s3_loop" /\ s3_record_n' = 0
  /\ UNCHANGED <<inputs, objects, trigger, event, invocation, sqs_record_n,
                 lines, idx, readBytes, fields, yielded, emitted, skipped,
                 cls_bulk_actions, shipper, sent, handed, backend,
                 conflicts>>

\* for s3_record_n, s3_record in enumerate(body["Records"]): the check of
\* the notification's fields and the call of storage.get_by_lines.
NextS3Record ==
  /\ UNCHANGED not_pipeline
  /\ pc = "s3_loop"
  /\ IF s3_record_n >= Len(event[sqs_record_n + 1].body)
     THEN /\ pc' = "sqs_loop"
          /\ sqs_record_n' = sqs_record_n + 1
          /\ UNCHANGED <<lines, idx, readBytes>>
     ELSE IF Len(s3_record.bucket_arn) = 0 \/ Len(s3_record.object_key) = 0
     THEN /\ pc' = "raised"
          /\ UNCHANGED <<sqs_record_n, lines, idx, readBytes>>
     ELSE LET bucket_name == get_bucket_name_from_arn(s3_record.bucket_arn)
              range_start == last_ending_offset_of(s3_record)
          IN /\ lines' = get_by_lines(objects, bucket_name,
                                      s3_record.object_key, range_start)
             /\ readBytes' = Concat(generate(get_object(objects, bucket_name,
                                      s3_record.object_key, range_start)))
             /\ idx' = 0
             /\ pc' = "lines"
             /\ UNCHANGED sqs_record_n
  /\ UNCHANGED <<inputs, objects, trigger, event, invocation, s3_record_n,
                 fields, yielded, emitted, skipped, cls_bulk_actions, shipper,
                 sent, handed, backend,
                 conflicts>>

\* The loop over storage.get_by_lines ending after the first storage event.
end_of_stream_early(ls, n) == n >= 1 \/ n >= Len(ls)

\* `for ... in storage.get_by_lines(...)`: the loop ends when the generator
\* has no storage event left.
end_of_stream(ls, n) == n >= Len(ls)

\* One turn of the loop over storage.get_by_lines: the storage event is
\* skipped, or the event record is built and yielded; at the end of the
\* object the S3 record loop goes on.
NextLine ==
  /\ UNCHANGED not_pipeline
  /\ pc \in {"lines", "sent"}
  /\ IF end_of_stream(lines, idx)
     THEN /\ pc' = "s3_loop"
          /\ s3_record_n' = s3_record_n + 1
          /\ UNCHANGED <<idx, fields, yielded, emitted, skipped>>
     ELSE LET ev == lines[idx + 1]
              bucket_name == get_bucket_name_from_arn(s3_record.bucket_arn)
              tuple == [beginning_offset |-> ev.beginning_offset,
                        ending_offset |-> ev.ending_offset,
                        sqs_record_n |-> sqs_record_n,
                        s3_record_n |-> s3_record_n,
                        message |-> ev.log_event]
          IN /\ idx' = idx + 1
             /\ UNCHANGED s3_record_n
             /\ IF ShouldSkip(ev.ending_offset, last_ending_offset_of(s3_record))
                THEN /\ skipped' = Append(skipped, tuple)
                     /\ pc' = "lines"
                     /\ UNCHANGED <<fields, yielded, emitted>>
                ELSE /\ fields' =
                          [message |-> ev.log_event,
                           offset |-> ev.beginning_offset,
                           path |-> <<bucket_name, s3_record.object_key,
                                      s3_record.object_key>>,
                           bucket_name |-> bucket_name,
                           bucket_arn |-> s3_record.bucket_arn,
                           object_key |-> s3_record.object_key,
                           region |-> s3_record.awsRegion]
                     /\ yielded' = tuple
                     /\ emitted' = Append(emitted, tuple)
                     /\ skipped' = skipped
                     /\ pc' = "yielded"
  /\ UNCHANGED <<inputs, objects, trigger, event, invocation, sqs_record_n,
                 lines, readBytes, cls_bulk_actions, shipper, sent, handed,
                 backend,
                 conflicts>>

\* The caller hands the yielded event to ElasticsearchShipper.send.
Send ==
  /\ UNCHANGED not_pipeline
  /\ pc = "yielded"
  /\ LET action == bulk_action(fields)
         r == send(cls_bulk_actions, shipper, action)
     IN /\ cls_bulk_actions' = r.cls
        /\ shipper' = r.inst
        /\ sent' = Append(sent, action.id)
        /\ handed' = handed \o Ids(r.bulk)
        /\ backend' = es_bulk(backend, r.bulk, fields)
        /\ conflicts' = conflicts \cup es_conflicts(backend, r.bulk, fields)
  /\ pc' = "sent"
  /\ UNCHANGED <<inputs, objects, trigger, event, invocation, sqs_record_n,
                 s3_record_n, lines, idx, readBytes, fields, yielded, emitted,
                 skipped>>

\* The most events passed to send() on the one shipper of SpecShipper.
MaxSends == 3

\* The fields of event number n of an object, with message m.
FieldsOf(n, m) ==
  [DefaultFields EXCEPT !.message = m, !.offset = n,
                        !.bucket_arn = BucketArn, !.object_key = ObjectKey]

\* send(event) is called on the shipper, with the next event of the object.
CallSend(m) ==
  /\ UNCHANGED not_pipeline
  /\ Len(sent) < MaxSends
  /\ LET flds == FieldsOf(Len(sent), m)
         action == bulk_action(flds)
         r == send(cls_bulk_actions, shipper, action)
     IN /\ fields' = flds
        /\ cls_bulk_actions' = r.cls
        /\ shipper' = r.inst
        /\ sent' = Append(sent, action.id)
        /\ handed' = handed \o Ids(r.bulk)
        /\ backend' = es_bulk(backend, r.bulk, flds)
        /\ conflicts' = conflicts \cup es_conflicts(backend, r.bulk, flds)
  /\ UNCHANGED <<inputs, objects, trigger, event, invocation, pc,
                 sqs_record_n, s3_record_n, lines, idx, readBytes, yielded,
                 emitted, skipped>>

\* flush() is called on the shipper.
CallFlush ==
  /\ UNCHANGED not_pipeline
  /\ LET r == flush(cls_bulk_actions, shipper)
     IN /\ cls_bulk_actions' = r.cls
        /\ shipper' = r.inst
        /\ handed' = handed \o Ids(r.bulk)
        /\ backend' = es_bulk(backend, r.bulk, fields)
        /\ conflicts' = conflicts \cup es_conflicts(backend, r.bulk, fields)
  /\ UNCHANGED <<inputs, objects, trigger, event, invocation, pc,
                 sqs_record_n, s3_record_n, lines, idx, readBytes, fields,
                 yielded, emitted, skipped, sent>>

\* ElasticsearchShipper.send when es_bulk raises: the event is appended, the
\* exception leaves send() before `self._bulk_actions = []`.
send_raised(cls, inst, action) ==
  LET appended == Append(bulk_actions_of(cls, inst), action)
  IN [cls |-> IF inst.own THEN cls ELSE appended,
      inst |-> IF inst.own THEN [inst EXCEPT !.bulk_actions = appended]
               ELSE inst]

\* ElasticsearchShipper.flush when es_bulk raises: the exception leaves
\* flush() before `self._bulk_actions = []`.
flush_raised(cls, inst) == [cls |-> cls, inst |-> inst]

\* What a bulk write that raises can have written: the documents of the
\* actions before the one it failed at.
es_bulk_raising(docs, actions, flds) ==
  {es_bulk(docs, SubSeq(actions, 1, k), flds) : k \in 0..(Len(actions) - 1)}

\* send(event) is called on a shipper whose bulk write can raise.
TrySend(m) ==
  /\ UNCHANGED not_shipper
  /\ Len(sent) < MaxSends
  /\ LET flds == FieldsOf(Len(sent), m)
         action == bulk_action(flds)
         r == send(cls_bulk_actions, shipper, action)
         x == send_raised(cls_bulk_actions, shipper, action)
     IN /\ fields' = flds
        /\ sent' = Append(sent, action.id)
        /\ \/ /\ cls_bulk_actions' = r.cls
              /\ shipper' = r.inst
              /\ handed' = handed \o Ids(r.bulk)
              /\ backend' = es_bulk(backend, r.bulk, flds)
              /\ conflicts' = conflicts \cup es_conflicts(backend, r.bulk, flds)
              /\ write_raised' = FALSE
              /\ unwritten' = IF r.bulk = <<>> THEN Append(unwritten, action.id)
                              ELSE <<>>
           \/ /\ r.bulk # <<>>
              /\ cls_bulk_actions' = x.cls
              /\ shipper' = x.inst
              /\ backend' \in es_bulk_raising(backend, r.bulk, flds)
              /\ write_raised' = TRUE
              /\ unwritten' = Append(unwritten, action.id)
              /\ UNCHANGED <<handed, conflicts>>
  /\ UNCHANGED <<inputs, objects, trigger, event, invocation, pc,
                 sqs_record_n, s3_record_n, lines, idx, readBytes, yielded,
                 emitted, skipped>>

\* flush() is called on a shipper whose bulk write can raise.
TryFlush ==
  /\ UNCHANGED not_shipper
  /\ LET r == flush(cls_bulk_actions, shipper)
         x == flush_raised(cls_bulk_actions, shipper)
     IN \/ /\ cls_bulk_actions' = r.cls
           /\ shipper' = r.inst
           /\ handed' = handed \o Ids(r.bulk)
           /\ backend' = es_bulk(backend, r.bulk, fields)
           /\ conflicts' = conflicts \cup es_conflicts(backend, r.bulk, fields)
           /\ write_raised' = FALSE
           /\ unwritten' = IF r.bulk = <<>> THEN unwritten ELSE <<>>
        \/ /\ r.bulk # <<>>
           /\ cls_bulk_actions' = x.cls
           /\ shipper' = x.inst
           /\ backend' \in es_bulk_raising(backend, r.bulk, fields)
           /\ write_raised' = TRUE
           /\ UNCHANGED <<handed, conflicts, unwritten>>
  /\ UNCHANGED <<inputs, objects, trigger, event, invocation, pc,
                 sqs_record_n, s3_record_n, lines, idx, readBytes, fields,
                 yielded, emitted, skipped, sent>>

\* No write has failed, nothing was sent.
WritesAtRest ==
  /\ write_raised = FALSE
  /\ unwritten = <<>>

\* The continuation message written on a timeout: the records not yet
\* drained, the first S3 record carrying the offsets of the last event sent.
Continuation ==
  LET rec == event[sqs_record_n + 1]
      body == <<WithCursor(s3_record, yielded.beginning_offset,
                           yielded.ending_offset)>>
              \o SubSeq(rec.body, s3_record_n + 2, Len(rec.body))
  IN <<[rec EXCEPT !.body = body]>> \o SubSeq(event, sqs_record_n + 2, Len(event))

\* The invocation runs out of time after an event was sent: flush, persist
\* the resume cursor, stop.
Timeout ==
  /\ UNCHANGED not_pipeline
  /\ pc = "sent"
  /\ invocation < MaxInvocations
  /\ LET r == flush(cls_bulk_actions, shipper)
     IN /\ cls_bulk_actions' = r.cls
        /\ shipper' = r.inst
        /\ handed' = handed \o Ids(r.bulk)
        /\ backend' = es_bulk(backend, r.bulk, fields)
        /\ conflicts' = conflicts \cup es_conflicts(backend, r.bulk, fields)
  /\ event' = Continuation
  /\ pc' = "timed_out"
  /\ UNCHANGED <<inputs, objects, trigger, invocation, sqs_record_n,
                 s3_record_n, lines, idx, readBytes, fields, yielded, emitted,
                 skipped, sent>>

\* The continuation message is delivered: a new invocation with a new
\* shipper, in the same process (the class attribute is as it was left) or
\* in a new one.
Redeliver ==
  /\ UNCHANGED not_pipeline
  /\ pc = "timed_out"
  /\ invocation' = invocation + 1
  /\ cls_bulk_actions' \in {cls_bulk_actions, <<>>}
  /\ shipper' = NewShipper
  /\ pc' = "sqs_loop"
  /\ sqs_record_n' = 0
  /\ s3_record_n' = 0
  /\ lines' = <<>>
  /\ idx' = 0
  /\ readBytes' = <<>>
  /\ yielded' = NoTuple
  /\ emitted' = <<>>
  /\ skipped' = <<>>
  /\ sent' = <<>>
  /\ handed' = <<>>
  /\ UNCHANGED <<inputs, objects, trigger, event, fields, backend,
                 conflicts>>

\* The generator is finished: the caller's flush at stream end.
FinalFlush ==
  /\ UNCHANGED not_pipeline
  /\ pc \in {"exhausted", "returned"}
  /\ LET r == flush(cls_bulk_actions, shipper)
     IN /\ cls_bulk_actions' = r.cls
        /\ shipper' = r.inst
        /\ handed' = handed \o Ids(r.bulk)
        /\ backend' = es_bulk(backend, r.bulk, fields)
        /\ conflicts' = conflicts \cup es_conflicts(backend, r.bulk, fields)
  /\ pc' = IF pc = "exhausted" THEN "done" ELSE "done_returned"
  /\ UNCHANGED <<inputs, objects, trigger, event, invocation, sqs_record_n,
                 s3_record_n, lines, idx, readBytes, fields, yielded, emitted,
                 skipped, sent>>

\* ---------------------------------------------------------------------
\* The configuration of an output: ElasticSearchOutput and its kwargs.

\* _kwargs: the arguments the output knows.
OutputKeys ==
  {"elasticsearch_url", "cloud_id", "username", "password", "api_key",
   "dataset", "namespace"}

\* The most arguments one assignment of kwargs carries.
MaxKwargs == 3

\* The value of an argument: a string, empty or not, or not a string.
Str(s) == [type |-> "str", value |-> s]

NotStr == [type |-> "int"]

KwargsValues == {Str(""), Str("v"), NotStr}

\* The dictionaries assigned to kwargs.
KwargsDicts ==
  UNION {[K -> KwargsValues] :
           K \in {S \in SUBSET OutputKeys : Cardinality(S) <= MaxKwargs}}

\* ElasticSearchOutput.__init__ before it assigns kwargs: every attribute
\* is the empty string.
Unconstructed == [k \in OutputKeys |-> ""]

\* The property setters of the keys K of value, each a string.
set_attributes(out, value, K) ==
  [k \in OutputKeys |-> IF k \in K THEN value[k].value ELSE out[k]]

\* The checks of the kwargs setter after the attributes are set: what the
\* output holds when the setter is left, and whether it is left by raise.
validate(out) ==
  LET one_host == IF out.cloud_id # "" /\ out.elasticsearch_url # ""
                    THEN [out EXCEPT !.elasticsearch_url = ""]
                    ELSE out
      one_scheme == IF one_host.username # "" /\ one_host.api_key # ""
                      THEN [one_host EXCEPT !.username = "", !.password = ""]
                      ELSE one_host
      defaulted == [one_scheme EXCEPT
                      !.dataset = IF @ = "" THEN "generic" ELSE @,
                      !.namespace = IF @ = "" THEN "default" ELSE @]
  IN IF out.cloud_id = "" /\ out.elasticsearch_url = ""
       THEN [out |-> out, raised |-> TRUE]
     ELSE IF one_host.username = "" /\ one_host.api_key = ""
       THEN [out |-> one_host, raised |-> TRUE]
     ELSE IF one_scheme.username # "" /\ one_scheme.password = ""
       THEN [out |-> one_scheme, raised |-> TRUE]
     ELSE [out |-> defaulted, raised |-> FALSE]

\* The kwargs setter. A value that is not a string raises in its property
\* setter; the keys set before it are those the dictionary holds before
\* it, in whatever order the dictionary was built.
kwargs_setter(out, value) ==
  LET bad == {k \in DOMAIN value : value[k].type # "str"}
  IN IF bad # {}
       THEN {[out |-> set_attributes(out, value, K), raised |-> TRUE] :
               K \in SUBSET (DOMAIN value \ bad)}
       ELSE {validate(set_attributes(out, value, DOMAIN value))}

\* The kwargs getter: the attributes that are not empty.
kwargs(out) == [k \in {x \in OutputKeys : out[x] # ""} |-> out[k]]

\* ElasticSearchOutput(output_type="elasticsearch", kwargs=value): a raise
\* of the setter leaves no output.
Construct(value) ==
  /\ UNCHANGED not_output
  /\ output = None
  /\ \E r \in kwargs_setter(Unconstructed, value) :
       output' = IF r.raised THEN None ELSE r.out
  /\ UNCHANGED kwargs_raised

\* output.kwargs = value on the output constructed: a raise of the setter
\* leaves the output with what was set before it.
AssignKwargs(value) ==
  /\ UNCHANGED not_output
  /\ output # None
  /\ \E r \in kwargs_setter(output, value) :
       /\ output' = r.out
       /\ kwargs_raised' = (kwargs_raised \/ r.raised)

\* No output constructed.
OutputAtRest ==
  /\ output = None
  /\ kwargs_raised = FALSE

\* No aggregator, no expander, no classifier, no write that failed, no
\* output constructed.
StagesAtRest ==
  /\ MultilineAtRest /\ ExpanderAtRest /\ ClassifierAtRest
  /\ WritesAtRest /\ OutputAtRest /\ ConfigAtRest

Init == PipelineInit /\ FilterAtRest /\ EqAtRest /\ IdentAtRest /\ LinesAtRest /\ StagesAtRest

Next ==
  \/ NextSqsRecord
  \/ NextS3Record
  \/ NextLine
  \/ Send
  \/ Timeout
  \/ Redeliver
  \/ FinalFlush

Spec == Init /\ [][Next]_vars

\* The pipeline of an invocation that has received nothing.
PipelineAtRest ==
  /\ objects = [k \in {StoreKey} |-> <<>>]
  /\ trigger = <<>>
  /\ PipelineStart

\* One caller filtering message after message with one filter.
InitFilter == PipelineAtRest /\ FilterInit /\ EqAtRest /\ IdentAtRest /\ LinesAtRest /\ StagesAtRest

NextFilter ==
  \/ \E m \in Messages : FilterCall(1, m)
  \/ IsIncludedReset(1)
  \/ IsIncludedScan(1)
  \/ IsIncludedTest(1)
  \/ IsExcludedReset(1)
  \/ IsExcludedScan(1)
  \/ IsExcludedTest(1)
  \/ FilterReturn(1)

SpecFilter == InitFilter /\ [][NextFilter]_vars

\* Two callers, each filtering its own message again and again, with one
\* filter between them; their calls interleave step by step.
InitShared ==
  /\ PipelineAtRest /\ EqAtRest /\ IdentAtRest /\ LinesAtRest /\ StagesAtRest
  /\ \E inc \in SharedPatternArgs, exc \in SharedPatternArgs :
       /\ fargs = [include |-> inc, exclude |-> exc]
       /\ filter_ = new_filter(inc, exc)
  /\ CallersIdle

NextShared ==
  \/ \E t \in Callers : FilterCall(t, MessageOf(t))
  \/ \E t \in Callers : IsIncludedReset(t)
  \/ \E t \in Callers : IsIncludedScan(t)
  \/ \E t \in Callers : IsIncludedTest(t)
  \/ \E t \in Callers : IsExcludedReset(t)
  \/ \E t \in Callers : IsExcludedScan(t)
  \/ \E t \in Callers : IsExcludedTest(t)
  \/ \E t \in Callers : FilterReturn(t)

SpecShared == InitShared /\ [][NextShared]_vars

\* Two filters, constructed from any pattern lists, compared with ==.
InitEq == PipelineAtRest /\ FilterInit /\ EqInit /\ IdentAtRest /\ LinesAtRest /\ StagesAtRest

NextEq == FilterEq

SpecEq == InitEq /\ [][NextEq]_vars

\* An invocation that is not interrupted, on a lambda event of several
\* records with no resume cursor; the object is empty or has two lines.
InitRecords ==
  /\ objects \in [{StoreKey} -> {<<>>, <<"a", LF, "a">>}]
  /\ trigger \in EventsOfMany
  /\ PipelineStart
  /\ FilterAtRest /\ EqAtRest /\ IdentAtRest /\ LinesAtRest /\ StagesAtRest

NextRecords ==
  \/ NextSqsRecord
  \/ NextS3Record
  \/ NextLine
  \/ Send
  \/ FinalFlush

SpecRecords == InitRecords /\ [][NextRecords]_vars

\* One shipper, on which send() and flush() are called in any order; the
\* class's list is empty, or holds an event an earlier instance of the
\* process left in it.
InitShipper ==
  /\ objects = [k \in {StoreKey} |-> <<>>]
  /\ trigger = <<>>
  /\ inputs = ("sqs" :> (ConfiguredArn :> [type |-> "sqs", id |-> ConfiguredArn]))
  /\ event = trigger
  /\ invocation = 1
  /\ pc = "sqs_loop"
  /\ sqs_record_n = 0
  /\ s3_record_n = 0
  /\ lines = <<>>
  /\ idx = 0
  /\ readBytes = <<>>
  /\ fields = DefaultFields
  /\ yielded = NoTuple
  /\ emitted = <<>>
  /\ skipped = <<>>
  /\ cls_bulk_actions \in {<<>>, <<bulk_action(FieldsOf(MaxSends, <<>>))>>}
  /\ shipper = NewShipper
  /\ sent = <<>>
  /\ handed = <<>>
  /\ backend = {}
  /\ conflicts = {}
  /\ FilterAtRest /\ EqAtRest /\ IdentAtRest /\ LinesAtRest /\ StagesAtRest

NextShipper ==
  \/ \E m \in {<<>>, <<"a">>} : CallSend(m)
  \/ CallFlush

SpecShipper == InitShipper /\ [][NextShipper]_vars

\* The same shipper, with bulk writes that can raise.
InitFailing == InitShipper

NextFailing ==
  \/ \E m \in {<<>>, <<"a">>} : TrySend(m)
  \/ TryFlush

SpecFailing == InitFailing /\ [][NextFailing]_vars

\* One output, constructed and then assigned kwargs again and again.
InitOutput ==
  PipelineAtRest /\ FilterAtRest /\ EqAtRest /\ IdentAtRest /\ LinesAtRest /\ StagesAtRest

NextOutput ==
  \/ \E value \in KwargsDicts : Construct(value)
  \/ \E value \in KwargsDicts : AssignKwargs(value)

SpecOutput == InitOutput /\ [][NextOutput]_vars

\* One Config, empty as Config.__init__ leaves it, and add_input called on
\* it again and again.
InitConfig ==
  /\ objects = [k \in {StoreKey} |-> <<>>]
  /\ trigger = <<>>
  /\ inputs = <<>>
  /\ event = trigger
  /\ invocation = 1
  /\ pc = "sqs_loop"
  /\ sqs_record_n = 0
  /\ s3_record_n = 0
  /\ lines = <<>>
  /\ idx = 0
  /\ readBytes = <<>>
  /\ fields = DefaultFields
  /\ yielded = NoTuple
  /\ emitted = <<>>
  /\ skipped = <<>>
  /\ cls_bulk_actions = <<>>
  /\ shipper = NewShipper
  /\ sent = <<>>
  /\ handed = <<>>
  /\ backend = {}
  /\ conflicts = {}
  /\ FilterAtRest /\ EqAtRest /\ IdentAtRest /\ LinesAtRest /\ StagesAtRest

NextConfig == \E new_input \in Inputs : AddInput(new_input)

SpecConfig == InitConfig /\ [][NextConfig]_vars

\* The identifiers of two event payloads.
InitIdent ==
  PipelineAtRest /\ FilterAtRest /\ EqAtRest /\ IdentInit /\ LinesAtRest /\ StagesAtRest

NextIdent == S3ObjectId

SpecIdent == InitIdent /\ [][NextIdent]_vars

\* The segmentation of one stream.
InitLines ==
  /\ PipelineAtRest /\ FilterAtRest /\ EqAtRest /\ IdentAtRest
  /\ LinesInit /\ StagesAtRest

NextLines == GetByLines

SpecLines == InitLines /\ [][NextLines]_vars

\* The lines of one stream, read and then merged under one configuration.
InitMultiline ==
  /\ PipelineAtRest /\ FilterAtRest /\ EqAtRest /\ IdentAtRest
  /\ content \in LineStreams
  /\ chunking = ChunkSize
  /\ segmented = FALSE
  /\ segments = <<>>
  /\ MultilineInit
  /\ ExpanderAtRest /\ ClassifierAtRest /\ WritesAtRest /\ OutputAtRest /\ ConfigAtRest

NextMultiline ==
  \/ GetByLines
  \/ Collect

SpecMultiline == InitMultiline /\ [][NextMultiline]_vars

\* The expansion of one document.
InitExpander ==
  /\ PipelineAtRest /\ FilterAtRest /\ EqAtRest /\ IdentAtRest
  /\ LinesAtRest /\ MultilineAtRest /\ ExpanderInit
  /\ ClassifierAtRest /\ WritesAtRest /\ OutputAtRest /\ ConfigAtRest

NextExpander == Expand

SpecExpander == InitExpander /\ [][NextExpander]_vars

\* The classification of one object.
InitClassifier ==
  /\ PipelineAtRest /\ FilterAtRest /\ EqAtRest /\ IdentAtRest
  /\ LinesAtRest /\ MultilineAtRest /\ ExpanderAtRest /\ ClassifierInit
  /\ WritesAtRest /\ OutputAtRest /\ ConfigAtRest

NextClassifier == Classify

SpecClassifier == InitClassifier /\ [][NextClassifier]_vars

\* ------------------------------------------------- the resumable pipeline
\* The storage events of the object, read with no resume cursor.
ObjectLines == get_by_lines(objects, StoreKey[1], StoreKey[2], 0)

\* _handle_sqs_event's loop over the storage events of one object, as a
\* function: the events it yields for the cursor last_ending_offset.
RECURSIVE handle_lines(_, _)
handle_lines(ls, last_ending_offset) ==
  IF ls = <<>> THEN <<>>
  ELSE IF ShouldSkip(Head(ls).ending_offset, last_ending_offset)
       THEN handle_lines(Tail(ls), last_ending_offset)
       ELSE <<Head(ls)>> \o handle_lines(Tail(ls), last_ending_offset)

\* The resume cursor an S3 record carries, 0 if it carries none.
Cursor(r) == IF "last_ending_offset" \in DOMAIN r THEN r["last_ending_offset"] ELSE 0

\* The handler is inside the loop over the storage events of an object.
InObject == pc \in {"lines", "yielded", "sent"}

\* The storage event a tuple was built from.
AsLine(t) ==
  [log_event |-> t.message, beginning_offset |-> t.beginning_offset,
   ending_offset |-> t.ending_offset]

AsLines(ts) == [i \in 1..Len(ts) |-> AsLine(ts[i])]

OfRecord(ts, i, j) ==
  SelectSeq(ts, LAMBDA t : t.sqs_record_n = i /\ t.s3_record_n = j)

\* What was yielded, and what was skipped, for the object being read.
EmittedHere == AsLines(OfRecord(emitted, sqs_record_n, s3_record_n))
SkippedHere == AsLines(OfRecord(skipped, sqs_record_n, s3_record_n))

\* Every record of the event names a configured queue and a well-formed
\* object, none carries a cursor, and there is at least one object.
FreshAndValid(ev) ==
  /\ \E i \in 1..Len(ev) : ev[i].body # <<>>
  /\ \A i \in 1..Len(ev) :
       /\ ev[i].eventSourceARN = ConfiguredArn
       /\ \A j \in 1..Len(ev[i].body) :
            /\ ev[i].body[j].bucket_arn = BucketArn
            /\ ev[i].body[j].object_key = ObjectKey
            /\ "last_ending_offset" \notin DOMAIN ev[i].body[j]

\* The identifier of the document of the event that begins at offset b.
DocId(b) == [hex_prefix |-> BucketArn \o ObjectKey, offset |-> ZeroPad(b)]

\* C1: once the final flush has run, whatever the interruptions and
\* redeliveries before it, the backend holds exactly one document per event
\* of the object: none is missing, none is there twice.
C1_ExactlyOneDocumentPerEvent ==
  (pc = "done" /\ FreshAndValid(trigger)) =>
    /\ {d.id : d \in backend} =
         {DocId(ObjectLines[i].beginning_offset) : i \in 1..Len(ObjectLines)}
    /\ Cardinality(backend) = Len(ObjectLines)

\* C2: after flush() at stream end every event passed to send() before has
\* been handed to the bulk writer, a single pending event included, and the
\* pending buffer is empty.
C2_FlushHandsEverySentEvent ==
  pc \in {"done", "done_returned", "timed_out"} =>
    /\ \A i \in 1..Len(sent) : \E j \in 1..Len(handed) : handed[j] = sent[i]
    /\ bulk_actions_of(cls_bulk_actions, shipper) = <<>>

\* C3: of the storage events read so far for an object, exactly those that
\* end strictly before last_ending_offset were skipped and exactly the others
\* were yielded: nothing yielded ends before the cursor, nothing that ends at
\* or after it is skipped.
C3_SkippedIffEndsBeforeCursor ==
  InObject =>
    LET c == Cursor(s3_record)
        read == SubSeq(lines, 1, idx)
    IN /\ \A i \in 1..Len(EmittedHere) : EmittedHere[i].ending_offset >= c
       /\ \A i \in 1..Len(SkippedHere) : SkippedHere[i].ending_offset < c
       /\ SkippedHere = SelectSeq(read, LAMBDA l : l.ending_offset < c)
       /\ EmittedHere = SelectSeq(read, LAMBDA l : l.ending_offset >= c)

C3_Witness ==
  /\ InObject
  /\ SkippedHere # <<>>
  /\ EmittedHere # <<>>
  /\ EmittedHere[1].ending_offset = Cursor(s3_record)

\* The index of the first storage event whose end reaches the cursor c, one
\* past the last index if none does.
FirstReaching(ls, c) ==
  IF \E i \in 1..Len(ls) : ls[i].ending_offset >= c
  THEN CHOOSE i \in 1..Len(ls) :
         /\ ls[i].ending_offset >= c
         /\ \A j \in 1..(i - 1) : ls[j].ending_offset < c
  ELSE Len(ls) + 1

\* C4: the first event yielded for an object is the first one, in stream
\* order, whose end reaches or exceeds last_ending_offset, and every storage
\* event read after it is yielded too, in stream order.
C4_EmitsFromFirstReachingCursor ==
  InObject =>
    LET first == FirstReaching(lines, Cursor(s3_record))
    IN EmittedHere = SubSeq(lines, first, idx)

C4_Witness ==
  /\ InObject
  /\ idx = Len(lines)
  /\ FirstReaching(lines, Cursor(s3_record)) = 2
  /\ Len(EmittedHere) = 2

RECURSIVE DropEndingBefore(_, _)
DropEndingBefore(ls, c) ==
  IF ls # <<>> /\ Head(ls).ending_offset < c
  THEN DropEndingBefore(Tail(ls), c)
  ELSE ls

\* C5: the events yielded for an object read with the cursor C are the
\* events yielded for it with no cursor, less the leading ones that end
\* before C.last_ending_offset.
C5_IdempotentResume ==
  (InObject /\ idx = Len(lines)) =>
    EmittedHere = DropEndingBefore(handle_lines(ObjectLines, 0), Cursor(s3_record))

C5_Witness ==
  /\ InObject
  /\ idx = Len(lines)
  /\ Cursor(s3_record) > 0
  /\ Len(handle_lines(ObjectLines, 0)) = 3
  /\ Len(EmittedHere) = 2

\* C6: the chunk reader, asked for the object from start byte s, delivers
\* exactly the bytes of the object from position s to its end.
C6_ReadsFromStartByte ==
  InObject =>
    LET body == objects[StoreKey]
    IN readBytes = SubSeq(body, Cursor(s3_record) + 1, Len(body))

\* ------------------------------------------------- the include/exclude filter
\* A pattern list is configured: it is given and not empty.
Configured(arg) == arg # None /\ arg.list # <<>>

\* Some pattern of the list occurs in the message.
AnyOccurs(arg, m) == \E n \in 1..Len(arg.list) : Occurs(arg.list[n], m)

C8_MatcherErrorAccepts ==
  \A t \in Callers :
    (fpc[t] = "returned" /\ fraised[t]) => fresult[t] = TRUE

\* C9: a filter constructed with no include and no exclude patterns (each
\* list absent or empty) accepts every message.
C9_NoRulesAcceptsAll ==
  \A t \in Callers :
    (/\ fpc[t] = "returned"
     /\ ~Configured(fargs.include)
     /\ ~Configured(fargs.exclude)) =>
      fresult[t] = TRUE

C9_Witness ==
  \E t \in Callers :
    /\ fpc[t] = "returned"
    /\ fargs.include = [list |-> <<>>]
    /\ fargs.exclude = None
    /\ fmessage[t] # <<>>
    /\ fresult[t] = TRUE

C11_ExcludeOnlyAcceptsIffNoMatch ==
  \A t \in Callers :
    (/\ fpc[t] = "returned"
     /\ ~Configured(fargs.include)
     /\ Configured(fargs.exclude)) =>
      fresult[t] = ~AnyOccurs(fargs.exclude, fmessage[t])

\* The same, for the calls during which the matcher raised no error.
ExcludeOnlyWithoutError ==
  \A t \in Callers :
    (/\ fpc[t] = "returned"
     /\ ~fraised[t]
     /\ ~Configured(fargs.include)
     /\ Configured(fargs.exclude)) =>
      fresult[t] = ~AnyOccurs(fargs.exclude, fmessage[t])

\* The patterns of an Optional[IncludeExcludeRule], none for None.
PatternsOf(rule) == IF rule = None THEN <<>> ELSE rule.patterns

\* C12: f == g never raises; it is true iff the include pattern lists of the
\* two filters are equal and their exclude pattern lists are equal, and false
\* otherwise.
C12_FilterEqualityIsStructural ==
  eq \notin {"none", "pending"} =>
    eq = IF /\ PatternsOf(filter_.include_rules) = PatternsOf(other.include_rules)
            /\ PatternsOf(filter_.exclude_rules) = PatternsOf(other.exclude_rules)
         THEN "True" ELSE "False"

\* The same, for two filters that have the same rule sets configured.
EqualityOfLikeConfigured ==
  (/\ eq \notin {"none", "pending"}
   /\ (filter_.include_rules = None) = (other.include_rules = None)
   /\ (filter_.exclude_rules = None) = (other.exclude_rules = None)) =>
    eq = IF /\ PatternsOf(filter_.include_rules) = PatternsOf(other.include_rules)
            /\ PatternsOf(filter_.exclude_rules) = PatternsOf(other.exclude_rules)
         THEN "True" ELSE "False"

\* ------------------------------------------------------ the event identifier
\* A zero-padded numeral without its leading zeros.
RECURSIVE StripZeros(_)
StripZeros(d) == IF Len(d) > 1 /\ Head(d) = 0 THEN StripZeros(Tail(d)) ELSE d

SameObjectAndOffset(p, q) ==
  /\ p.bucket_arn = q.bucket_arn
  /\ p.object_key = q.object_key
  /\ p.offset = q.offset

\* C13: the identifier of an event is the hash prefix of its bucket ARN
\* concatenated with its object key, and its beginning offset zero-padded to
\* 12 digits; two events of the same object at the same beginning offset have
\* the same identifier whatever their other fields are.
C13_IdentifierIsDeterministic ==
  ident # <<>> =>
    /\ \A i \in 1..2 :
         /\ ident[i].hex_prefix =
              hex_prefix(payload[i].bucket_arn \o payload[i].object_key)
         /\ StripZeros(ident[i].offset) = payload[i].offset
         /\ Len(payload[i].offset) <= OffsetWidth =>
              Len(ident[i].offset) = OffsetWidth
    /\ SameObjectAndOffset(payload[1], payload[2]) => ident[1] = ident[2]

C13_Witness ==
  /\ ident # <<>>
  /\ SameObjectAndOffset(payload[1], payload[2])
  /\ payload[1].message # payload[2].message
  /\ payload[1].region # payload[2].region
  /\ payload[1].offset = <<1, 0>>
  /\ ident[1] = ident[2]

\* C14: two events at the same beginning offset whose objects differ, in the
\* bucket ARN or in the object key, have different identifiers.
C14_DifferentObjectsDifferentIdentifiers ==
  (/\ ident # <<>>
   /\ payload[1].offset = payload[2].offset
   /\ \/ payload[1].bucket_arn # payload[2].bucket_arn
      \/ payload[1].object_key # payload[2].object_key) =>
    ident[1] # ident[2]

\* The same, for two objects that differ in one of the two only.
DifferentKeyOrDifferentBucket ==
  (/\ ident # <<>>
   /\ payload[1].offset = payload[2].offset
   /\ (payload[1].bucket_arn # payload[2].bucket_arn)
        # (payload[1].object_key # payload[2].object_key)) =>
    ident[1] # ident[2]

\* s < t as strings of digits: s is a proper prefix of t, or the first digit
\* the two differ in is smaller in s.
LexLess(s, t) ==
  \/ Len(s) < Len(t) /\ SubSeq(t, 1, Len(s)) = s
  \/ \E i \in 1..Len(s) :
       /\ i <= Len(t)
       /\ SubSeq(s, 1, i - 1) = SubSeq(t, 1, i - 1)
       /\ s[i] < t[i]

\* a < b as numbers, a and b decimal numerals without leading zeros.
NumLess(a, b) ==
  \/ Len(a) < Len(b)
  \/ Len(a) = Len(b) /\ LexLess(a, b)

\* C15: of two events of the same object, the one with the smaller beginning
\* offset has the lexically smaller identifier, and the two identifiers have
\* the same width.
C15_LexicalOrderIsNumericOrder ==
  (/\ ident # <<>>
   /\ payload[1].bucket_arn = payload[2].bucket_arn
   /\ payload[1].object_key = payload[2].object_key
   /\ NumLess(payload[1].offset, payload[2].offset)) =>
    /\ ident[1].hex_prefix = ident[2].hex_prefix
    /\ LexLess(ident[1].offset, ident[2].offset)
    /\ Len(ident[1].offset) = Len(ident[2].offset)

\* The same, for offsets of at most OffsetWidth digits.
OrderWithinWidth ==
  (/\ ident # <<>>
   /\ payload[1].bucket_arn = payload[2].bucket_arn
   /\ payload[1].object_key = payload[2].object_key
   /\ Len(payload[2].offset) <= OffsetWidth
   /\ NumLess(payload[1].offset, payload[2].offset)) =>
    /\ ident[1].hex_prefix = ident[2].hex_prefix
    /\ LexLess(ident[1].offset, ident[2].offset)
    /\ Len(ident[1].offset) = Len(ident[2].offset)

\* ------------------------------------------------------------- the bulk sink
\* The events the shipper holds pending.
Pending == bulk_actions_of(cls_bulk_actions, shipper)

\* C16: every pending action is a create-only write keyed on the identifier
\* of an event of the object; a document the backend holds is never replaced
\* nor removed, no two documents have the same identifier, and a batch whose
\* identifiers the backend all holds leaves it as it is.
C16_RedeliveryIsNoOp ==
  [][/\ \A i \in 1..Len(Pending') :
          /\ Pending'[i].op_type = "create"
          /\ \E j \in 1..(MaxLen + 1) : Pending'[i].id = DocId(j - 1)
     /\ \A d \in backend : d \in backend'
     /\ \A d1, d2 \in backend' : d1.id = d2.id => d1 = d2
     /\ (\A i \in 1..Len(handed') :
           \E d \in backend : d.id = handed'[i]) => backend' = backend]_vars

\* An event sent in a redelivery was handed to the bulk writer a second
\* time, with the shared fields holding another event than at its first
\* write.
C16_Witness ==
  /\ invocation = 2
  /\ \E i \in 1..Len(sent) :
       /\ sent[i] \in conflicts
       /\ \E d \in backend : d.id = sent[i] /\ d.fields # fields
       /\ \E j \in 1..Len(handed) : handed[j] = sent[i]
  /\ pc = "sent"
  /\ Pending = <<>>

\* C17: a send() leaves fewer pending events than the batch size; it writes
\* the batch, the new event included, and empties the buffer if with the new
\* event the buffer reaches the batch size, and writes nothing if not.
C17_SendWritesAtThreshold ==
  [][Send =>
       LET appended == Append(Pending, bulk_action(fields))
       IN /\ Len(Pending') < BulkBatchSize
          /\ IF Len(appended) >= BulkBatchSize
             THEN /\ Pending' = <<>>
                  /\ handed' = handed \o Ids(appended)
                  /\ \A i \in 1..Len(appended) :
                       \E d \in backend' : d.id = appended[i].id
             ELSE /\ Pending' = appended
                  /\ handed' = handed
                  /\ backend' = backend]_vars

C17_Witness ==
  /\ pc = "sent"
  /\ Len(sent) = BulkBatchSize
  /\ handed = sent
  /\ Pending = <<>>
  /\ Cardinality(backend) = BulkBatchSize

\* ------------------------------------------------- the notification entries
\* Entry (a, b) of the lambda event comes before entry (c, d).
EntryBefore(a, b, c, d) == a < c \/ (a = c /\ b < d)

\* The entries of the lambda event the handler has left behind.
EntriesBefore(c, d) ==
  {e \in (0..(Len(event) - 1)) \X (0..MaxS3Records) :
     /\ e[2] < Len(event[e[1] + 1].body)
     /\ EntryBefore(e[1], e[2], c, d)}

\* C18: in the sequence of emitted tuples the pair (sqs_record_n,
\* s3_record_n) never decreases; the events of one entry are emitted in the
\* order the storage produced them; an entry is drained to its last event
\* before an event of a later entry is emitted.
C18_EntriesInListedOrder ==
  /\ \A i, j \in 1..Len(emitted) :
       i < j => ~EntryBefore(emitted[j].sqs_record_n, emitted[j].s3_record_n,
                             emitted[i].sqs_record_n, emitted[i].s3_record_n)
  /\ InObject => EmittedHere = SubSeq(lines, 1, idx)
  /\ \A i \in 1..Len(emitted) :
       \A e \in EntriesBefore(emitted[i].sqs_record_n, emitted[i].s3_record_n) :
         AsLines(OfRecord(emitted, e[1], e[2])) = ObjectLines

C18_Witness ==
  /\ Len(event) = 2
  /\ Len(OfRecord(emitted, 0, 0)) = 2
  /\ Len(OfRecord(emitted, 1, 0)) = 2
  /\ emitted[3].sqs_record_n = 1

\* The S3 record names a bucket and an object.
WellFormed(r) == Len(r.bucket_arn) > 0 /\ Len(r.object_key) > 0

\* C19: no event is emitted for a notification that has a storage record
\* with an empty bucket ARN or an empty object key, whichever of its storage
\* records the event would come from.
C19_InvalidNotificationEmitsNothing ==
  \A i \in 1..Len(emitted) :
    LET body == event[emitted[i].sqs_record_n + 1].body
    IN \A j \in 1..Len(body) : WellFormed(body[j])

\* The same, for the malformed storage record and those listed after it:
\* the handler raises at the malformed record, and nothing is emitted from
\* then on.
MalformedRecordIsFatal ==
  /\ \A i \in 1..Len(emitted) :
       LET body == event[emitted[i].sqs_record_n + 1].body
       IN \A j \in 1..(emitted[i].s3_record_n + 1) : WellFormed(body[j])
  /\ pc = "raised" => ~ENABLED NextRecords

\* ------------------------------------------------------- the line segmenter
\* C20: the spans of the events of a plain-text stream read from offset 0
\* cover it exactly: the first begins at 0, each begins where the one before
\* ends, and the last ends at the byte length of the stream, whatever the
\* stream and its newline style.
C20_LastEndingOffsetIsLength ==
  (segmented /\ content # <<>>) =>
    /\ segments # <<>>
    /\ segments[1].beginning_offset = 0
    /\ \A i \in 1..(Len(segments) - 1) :
         segments[i + 1].beginning_offset = segments[i].ending_offset
    /\ segments[Len(segments)].ending_offset = Len(content)

C20_Witness ==
  /\ segmented
  /\ content = <<"a", CR, LF, "a">>
  /\ chunking = 2
  /\ Len(segments) = 2
  /\ segments[1].log_event = <<"a">>
  /\ segments[2].ending_offset = 4

\* Every way of cutting a stream into non-empty chunks.
RECURSIVE Splits(_)
Splits(bytes) ==
  IF bytes = <<>> THEN {<<>>}
  ELSE UNION {{<<SubSeq(bytes, 1, n)>> \o rest :
                 rest \in Splits(SubSeq(bytes, n + 1, Len(bytes)))} :
              n \in 1..Len(bytes)}

\* The bytes of the stream a storage event spans.
SpanBytes(bytes, seg) == SubSeq(bytes, seg.beginning_offset + 1, seg.ending_offset)

RECURSIVE ConcatSpans(_, _)
ConcatSpans(bytes, segs) ==
  IF segs = <<>> THEN <<>>
  ELSE SpanBytes(bytes, Head(segs)) \o ConcatSpans(bytes, Tail(segs))

\* C21: the storage events of a stream, content and offsets, are the same
\* however the stream is cut into chunks; each event's span is its line
\* followed by nothing or by a delimiter, and the spans one after the other
\* are the stream, so that no byte is lost and none is emitted twice.
C21_LosslessSegmentation ==
  segmented =>
    /\ \A chunks \in Splits(content) : by_line(chunks, 0) = segments
    /\ \A i \in 1..Len(segments) :
         \E nl \in {<<>>, <<LF>>, <<CR, LF>>} :
           SpanBytes(content, segments[i]) = segments[i].log_event \o nl
    /\ ConcatSpans(content, segments) = content

C21_Witness ==
  /\ segmented
  /\ content = <<"a", "a", LF, "a">>
  /\ chunking = 1
  /\ Len(segments) = 2
  /\ segments[1].log_event = <<"a", "a">>
  /\ segments[2] = [log_event |-> <<"a">>, beginning_offset |-> 3,
                    ending_offset |-> 4]

\* ------------------------------------------------- the multiline aggregator
\* The lines, by their numbers, that lie within the span of an event.
LinesWithin(ev) ==
  {i \in 1..Len(segments) :
     /\ ev.beginning_offset <= segments[i].beginning_offset
     /\ segments[i].ending_offset <= ev.ending_offset}

Ceiling(n, c) == (n + c - 1) \div c

Least(a, b) == IF a < b THEN a ELSE b

\* C22: a count multiline with count c over n physical lines yields
\* ceil(n/c) events; event number i merges the c consecutive lines that
\* follow those of event i - 1, and the last event holds the remainder,
\* flushed at the end of the stream.
C22_CountYieldsCeiling ==
  (aggregated /\ multiline.type = "count") =>
    LET c == multiline.count_lines
        n == Len(segments)
    IN /\ Len(collected) = Ceiling(n, c)
       /\ \A i \in 1..Len(collected) :
            /\ LinesWithin(collected[i])
                 = ((i - 1) * c + 1)..Least(i * c, n)
            /\ i < Len(collected) =>
                 Cardinality(LinesWithin(collected[i])) = c
            /\ i = Len(collected) =>
                 Cardinality(LinesWithin(collected[i])) = n - (i - 1) * c

\* A count of 3 over 7 lines gave events of 3, 3 and 1 lines.
C22_Witness ==
  /\ aggregated
  /\ multiline = [type |-> "count", count_lines |-> 3]
  /\ Len(segments) = 7
  /\ Len(collected) = 3
  /\ LinesWithin(collected[1]) = 1..3
  /\ LinesWithin(collected[2]) = 4..6
  /\ LinesWithin(collected[3]) = {7}

\* The bytes of the stream from the first byte of line lo to the last byte
\* of the text of line hi.
TextOfLines(lo, hi) ==
  SubSeq(content, segments[lo].beginning_offset + 1,
         segments[hi].beginning_offset + Len(segments[hi].log_event))

\* C23: under each of the three strategies, once the end of the stream has
\* forced the final flush, every physical line lies in exactly one emitted
\* event, the events follow one another in the order of the lines, and each
\* event's offsets span exactly the lines merged into it.
C23_EveryLineInOneEvent ==
  aggregated =>
    /\ \A i \in 1..Len(segments) :
         Cardinality({k \in 1..Len(collected) :
                        i \in LinesWithin(collected[k])}) = 1
    /\ \A k \in 1..(Len(collected) - 1) :
         collected[k].ending_offset = collected[k + 1].beginning_offset
    /\ \A k \in 1..Len(collected) :
         \E lo \in 1..Len(segments) : \E hi \in lo..Len(segments) :
           /\ LinesWithin(collected[k]) = lo..hi
           /\ collected[k].beginning_offset = segments[lo].beginning_offset
           /\ collected[k].ending_offset = segments[hi].ending_offset
           /\ collected[k].log_event = TextOfLines(lo, hi)

\* The pattern strategy, in after mode, was left with two lines buffered at
\* the end of the stream, and the final flush emitted them as the last
\* event.
C23_Witness ==
  /\ aggregated
  /\ content = <<"a", LF, LF, "a", LF, LF>>
  /\ multiline = [type |-> "pattern", pattern |-> <<"a">>, match |-> "after",
                  negate |-> FALSE, flush_pattern |-> None]
  /\ Len(collected) = 2
  /\ collected[2] = [log_event |-> <<"a", LF>>, beginning_offset |-> 3,
                     ending_offset |-> 6]

\* ------------------------------------------------------ the list expander
\* C24: expanding a list of n elements from resume element index k gives
\* exactly the events of elements k..n-1, in list order, with strictly
\* increasing offsets, each element with the offsets it has when the list is
\* expanded from index 0.
C24_ExpansionResumesAtIndex ==
  (expanded # None /\ expanded # NotApplicable) =>
    LET list == document[FieldToExpand].list
        n == Len(list)
        events == expanded.events
        from_zero == expand(document, FieldToExpand, 0, 0).events
    IN /\ Len(events) = IF resume < n THEN n - resume ELSE 0
       /\ Len(from_zero) = n
       /\ \A j \in 1..Len(events) :
            /\ events[j].element = resume + j - 1
            /\ events[j].log_event = list[resume + j]
            /\ events[j].beginning_offset
                 = from_zero[resume + j].beginning_offset
            /\ events[j].ending_offset = from_zero[resume + j].ending_offset
       /\ \A j \in 1..(Len(events) - 1) :
            /\ events[j].beginning_offset < events[j + 1].beginning_offset
            /\ events[j].ending_offset < events[j + 1].ending_offset

\* A list of three elements expanded from index 1 gave the events of its
\* second and third elements.
C24_Witness ==
  /\ document = (FieldToExpand :> [list |-> <<<<"1">>, <<"7">>, <<"1", "0">>>>])
  /\ resume = 1
  /\ expanded # None
  /\ expanded # NotApplicable
  /\ Len(expanded.events) = 2
  /\ expanded.events[1].log_event = <<"7">>
  /\ expanded.events[1].beginning_offset = 3
  /\ expanded.events[2].log_event = <<"1", "0">>
  /\ expanded.events[2].beginning_offset = 5

\* ------------------------------------------------------ the circuit breaker
\* C25: an object whose size exceeds the configured threshold is classified
\* plain, whatever its content, valid JSON included, and whatever it would
\* be classified as below the threshold.
C25_CircuitBreakerForcesPlain ==
  (classified # None /\ declared_size(sample) > threshold) =>
    classified = [type |-> "plain"]

\* A valid JSON document larger than the threshold, which the content type
\* configured or the sampling would make single or NDJSON, was classified
\* plain.
C25_Witness ==
  /\ classified = [type |-> "plain"]
  /\ sample = <<"{", "}", LF, "{", "}">>
  /\ declared_size(sample) > threshold
  /\ sampled(sample) = [type |-> "ndjson"]
  /\ json_content_type = [type |-> "single"]

\* ------------------------------------------------------ the shared filter
\* What filter(m) returns when no other call runs during it: the value if
\* no scan raises, and the values it can have if one does.
FilterAlone(f, m, raised) ==
  LET inc == f.include_rules # None /\ MatchIds(f.include_rules, m) # {}
      exc == f.exclude_rules # None /\ MatchIds(f.exclude_rules, m) # {}
      mode == dispatch(f)
  IN IF mode = "always_yield" THEN {TRUE}
     ELSE IF mode = "include_only" THEN (IF raised THEN {TRUE} ELSE {inc})
     ELSE IF mode = "exclude_only" THEN (IF raised THEN {FALSE} ELSE {~exc})
     ELSE IF raised THEN {FALSE} \cup (IF exc THEN {} ELSE {TRUE})
     ELSE {~exc /\ inc}

\* C26: when two filter() calls on one filter interleave, each call returns
\* what it would return if it ran alone.
C26_InterleavedCallsAsAlone ==
  \A t \in Callers :
    fpc[t] = "returned" =>
      fresult[t] \in FilterAlone(filter_, fmessage[t], fraised[t])

\* A call that no other call interleaves with returns what FilterAlone says.
AloneAsAlone ==
  fpc[1] = "returned" =>
    fresult[1] \in FilterAlone(filter_, fmessage[1], fraised[1])

\* ------------------------------------------------------ the event records
\* C27: an event record, buffered or written, keeps the message, the log
\* offset, the file path, the S3 identity and the region it was emitted
\* with when later events are emitted.  A buffered record's "fields" is the
\* dict the handler writes into; its message at emission is the one send()
\* kept as event.original, its offset and S3 identity those of its _id.
C27_EventRecordsIndependent ==
  /\ \A i \in 1..Len(Pending) :
       /\ fields.message = Pending[i].original
       /\ s3_object_id(fields) = Pending[i].id
  /\ \A d \in backend :
       /\ d.fields.message = d.original
       /\ s3_object_id(d.fields) = d.id

\* ------------------------------------------------------ the shipper instances
\* The ids passed to send() on the current shipper instance.
IdsSent == {sent[j] : j \in 1..Len(sent)}

\* C28: shipper instances do not share pending events: what an instance
\* holds pending and what it hands to the bulk writer was passed to send()
\* on that instance, not on another one.
C28_InstancesShareNothing ==
  /\ \A i \in 1..Len(Pending) : Pending[i].id \in IdsSent
  /\ \A i \in 1..Len(handed) : handed[i] \in IdsSent

\* ------------------------------------------------- the unconfigured source
\* Every S3 record of every SQS record of the event is well-formed.
AllWellFormed ==
  \A n \in 1..Len(event) :
    \A j \in 1..Len(event[n].body) : WellFormed(event[n].body[j])

\* The SQS record has an input configured and lists an object with lines.
HasEventsToEmit(r) ==
  /\ get_input_by_type_and_id(inputs, "sqs", r.eventSourceARN) # None
  /\ Len(r.body) > 0
  /\ objects[StoreKey] # <<>>

\* C29: an SQS record whose event source has no input configured does not
\* end the invocation: once the generator is finished, every SQS record that
\* has an input configured, those listed after the unconfigured one
\* included, has had its events emitted.
C29_UnconfiguredSourceIsSkipped ==
  (pc \in {"exhausted", "returned", "done", "done_returned"}
   /\ AllWellFormed) =>
    \A n \in 1..Len(event) :
      HasEventsToEmit(event[n]) =>
        \E i \in 1..Len(emitted) : emitted[i].sqs_record_n = n - 1

\* ------------------------------------------------------ the one shipper
\* The positions in handed of the ids passed to send() on this shipper.
OwnHanded == {i \in 1..Len(handed) : handed[i] \in IdsSent}

\* The number of the send() call that was given the id.
SendOf(id) == CHOOSE j \in 1..Len(sent) : sent[j] = id

PendingIds == {Pending[i].id : i \in 1..Len(Pending)}

\* C31: when the bulk write raises during send() or flush(), the pending
\* buffer holds every event sent since the last write that succeeded.
C31_RaiseLosesNothing ==
  write_raised => \A i \in 1..Len(unwritten) : unwritten[i] \in PendingIds

\* The call that raises takes nothing out of the buffer: what was pending
\* before it, and the event send() was called with, is pending after it, in
\* the same order, so that the next write is given all of it.
RaiseKeepsPending ==
  [][write_raised' =>
       \/ Pending' = Pending
       \/ /\ Len(Pending') = Len(Pending) + 1
          /\ SubSeq(Pending', 1, Len(Pending)) = Pending
          /\ Pending'[Len(Pending')].id = sent'[Len(sent')]]_vars

\* ------------------------------------------------------ the reused filter
\* _is_included and _is_excluded on an instance whose flag no earlier call
\* has set: did the scan raise, and the value returned.
IsIncludedOnFresh(f, m) ==
  {[raised |-> o.raised,
    value |-> o.raised \/ (f.is_included_matched \/ o.matched)] :
     o \in ScanOutcomes(f.include_rules, m)}

IsExcludedOnFresh(f, m) ==
  {[raised |-> o.raised,
    value |-> o.raised \/ (f.is_excluded_matched \/ o.matched)] :
     o \in ScanOutcomes(f.exclude_rules, m)}

\* filter(m) on a new instance constructed from the pattern lists: whether a
\* scan raised, and the result.
FilterOnFresh(include_patterns, exclude_patterns, m) ==
  LET f == new_filter(include_patterns, exclude_patterns)
      mode == dispatch(f)
      included == {[raised |-> i.raised, result |-> i.value] :
                     i \in IsIncludedOnFresh(f, m)}
  IN IF mode = "always_yield" THEN {[raised |-> FALSE, result |-> TRUE]}
     ELSE IF mode = "include_only" THEN included
     ELSE UNION {LET r == on_excluded_return(mode, e.value)
                 IN IF r.done THEN {[raised |-> e.raised, result |-> r.result]}
                    ELSE included :
                   e \in IsExcludedOnFresh(f, m)}

\* C32: whatever calls of filter() the instance has served before, matching
\* or not, raising or not, filter(m) returns what it returns on a new
\* instance with the same patterns (the matcher raising or not as in the
\* call).
C32_ResultIndependentOfHistory ==
  fpc[1] = "returned" =>
    [raised |-> fraised[1], result |-> fresult[1]]
      \in FilterOnFresh(fargs.include, fargs.exclude, fmessage[1])

\* A call that an exclude pattern ended has returned reject on an instance
\* whose include flag an earlier call left set.
C32_Witness ==
  /\ fpc[1] = "returned"
  /\ fargs = [include |-> [list |-> <<<<"a">>>>],
              exclude |-> [list |-> <<<<"b">>>>]]
  /\ fmessage[1] = <<"b">>
  /\ filter_.is_included_matched
  /\ ~fraised[1]
  /\ fresult[1] = FALSE

\* ---------------------------------------------------------------------
\* C33: after any sequence of successful kwargs assignments on an
\* ElasticSearchOutput, its effective kwargs hold exactly one of cloud_id
\* and elasticsearch_url and exactly one credential scheme, either api_key
\* with neither username nor password or username together with a
\* non-empty password, and dataset and namespace are non-empty.

OneHost(kw) == ("cloud_id" \in DOMAIN kw) # ("elasticsearch_url" \in DOMAIN kw)

OneScheme(kw) ==
  \/ /\ "api_key" \in DOMAIN kw
     /\ "username" \notin DOMAIN kw
     /\ "password" \notin DOMAIN kw
  \/ /\ "username" \in DOMAIN kw
     /\ "password" \in DOMAIN kw
     /\ "api_key" \notin DOMAIN kw

Defaulted(kw) == "dataset" \in DOMAIN kw /\ "namespace" \in DOMAIN kw

C33_OneHostOneScheme ==
  (output # None /\ ~kwargs_raised) =>
    /\ OneHost(kwargs(output))
    /\ OneScheme(kwargs(output))
    /\ Defaulted(kwargs(output))

\* What of it holds: one host, one of api_key and username, a password with
\* the username, a dataset and a namespace.
HostAndDefaults ==
  (output # None /\ ~kwargs_raised) =>
    /\ OneHost(kwargs(output))
    /\ Defaulted(kwargs(output))
    /\ ("api_key" \in DOMAIN kwargs(output)) # ("username" \in DOMAIN kwargs(output))
    /\ "username" \in DOMAIN kwargs(output) => "password" \in DOMAIN kwargs(output)

\* ---------------------------------------------------------------------
\* C34: Config.add_input rejects an input whose (type, id) is already
\* registered with an error and leaves the configuration unchanged; after
\* any sequence of add_input calls, get_input_by_type_and_id(t, i) returns
\* the input first added with that type and id, and None if none was added.

\* The types a Config is asked for: the one inputs have, and another.
QueryTypes == AvailableInputTypes \cup {"s3"}

\* The calls of add_input given an input of type t and id i.
AddedAs(t, i) == {n \in 1..Len(added) : added[n].type = t /\ added[n].id = i}

\* The input first given to add_input with type t and id i, None if none.
FirstAdded(t, i) ==
  IF AddedAs(t, i) = {} THEN None
  ELSE added[CHOOSE n \in AddedAs(t, i) : \A m \in AddedAs(t, i) : n <= m]

FirstAddedIsKept ==
  \A t \in QueryTypes, i \in InputIds :
    get_input_by_type_and_id(inputs, t, i) = FirstAdded(t, i)

\* A call of add_input with an input whose type and id are registered.
DuplicateIsRejected ==
  (added' # added) =>
    LET new_input == added'[Len(added')]
    IN get_input_by_type_and_id(inputs, new_input.type, new_input.id) # None
         => add_input_raised' /\ inputs' = inputs

C34_DuplicateRejectedFirstKept ==
  []FirstAddedIsKept /\ [][DuplicateIsRejected]_vars

\* Reached: an input was registered, another object of the same type and id
\* was rejected, and the first is what the Config returns.
C34_Witness ==
  /\ Len(added) = 2
  /\ added[1].id = added[2].id
  /\ added[1].object # added[2].object
  /\ add_input_raised
  /\ get_input_by_type_and_id(inputs, "sqs", added[1].id) = added[1]
  /\ get_input_by_type_and_id(inputs, "sqs", UnconfiguredArn) = None

====
